---- MODULE Spec2Model ----
(***************************************************************************)
(* State-machine model of the APOE genotyping toolkit: the cohort          *)
(* stratifier (src/src/apoe_toolkit/stratifier.py), the genotype caller    *)
(* (caller.py), the feasibility estimator (feasibility.py) and the         *)
(* feasibility sub-command of the command line (cli.py).                   *)
(*                                                                         *)
(* A cohort table is a record [columns, rows]: the set of column names and *)
(* the sequence of rows, each row a function from the column names to the  *)
(* cell values.  Text (column names, genotype labels, gender tokens) is a  *)
(* string whose spelling, a sequence of one-character strings, is looked   *)
(* up in Spelling, so that str.upper(), str.lower() and str.contains() are *)
(* computed character by character.                                        *)
(*                                                                         *)
(* One call of CohortStratifier.stratify() is the four steps               *)
(*   Prepare -> ApplyExclusions -> StratifyFemales -> StratifyMales,       *)
(* Prepare ending the call with an error when a required column is         *)
(* missing (Spec).  In SpecTwice the caller calls stratify() again on the  *)
(* same cohort and configuration (CallAgain), and the calendar year of the *)
(* wall clock may advance between the two calls (NewYear).                 *)
(*                                                                         *)
(* SpecDosage is one call of _dosage_to_diplotype() on a pair of doses,    *)
(* SpecResults one call each of summarise() and estimate_from_results() on *)
(* a list of results, SpecCli one run of "apoe-toolkit feasibility".       *)
(***************************************************************************)
EXTENDS Integers, Sequences, FiniteSets, TLC

VARIABLES
    cohort,     \* the caller's cohort table (argument of stratify)
    config,     \* the caller's StratificationConfig
    year,       \* datetime.datetime.now().year of the wall clock
    pc,         \* position of the current call of stratify()
    df,         \* stratify's working copy of the cohort
    result,     \* the StratificationResult under construction: <<>> or <<r>>
    error,      \* the set named by the raised ValueError ({} when none)
    runs,       \* number of finished calls of stratify()
    first,      \* outcome of the first finished call: <<>> or <<outcome>>
    doses,      \* the two allele doses of a row of a PLINK .raw file
    call,       \* how _dosage_to_diplotype ended on them: <<>> or <<ending>>
    results,    \* a list of APOEResult, as given to summarise() and
                \* estimate_from_results()
    criteria,   \* the other arguments of estimate_from_results()
    summary,    \* the APOESummary returned: <<>> or <<s>>
    report,     \* the FeasibilityReport returned: <<>> or <<r>>
    argv,       \* the command line of apoe-toolkit and the file it names
    cli         \* the run of the command: position, parsed arguments, text
                \* printed, exception raised

\* the variables of the caller, the feasibility estimator and the command line
toolkit == <<doses, call, results, criteria, summary, report, argv, cli>>

vars == <<cohort, config, year, pc, df, result, error, runs, first,
          doses, call, results, criteria, summary, report, argv, cli>>

----------------------------------------------------------------------------
(* Bounds of the model *)

MaxRows == 2

MaxTarget == 2

MaxDose == 3

MaxResults == 2

----------------------------------------------------------------------------
(* Text: str.upper(), str.lower(), str.contains() *)

LowerAlpha == <<"a","b","c","d","e","f","g","h","i","j","k","l","m",
                "n","o","p","q","r","s","t","u","v","w","x","y","z">>

UpperAlpha == <<"A","B","C","D","E","F","G","H","I","J","K","L","M",
                "N","O","P","Q","R","S","T","U","V","W","X","Y","Z">>

\* the letter-case maps of str.upper() and str.lower()
ToUpper == [c \in {LowerAlpha[i] : i \in 1..26} |->
              UpperAlpha[CHOOSE i \in 1..26 : LowerAlpha[i] = c]]

ToLower == [c \in {UpperAlpha[i] : i \in 1..26} |->
              LowerAlpha[CHOOSE i \in 1..26 : UpperAlpha[i] = c]]

UpperChar(c) == IF c \in DOMAIN ToUpper THEN ToUpper[c] ELSE c

LowerChar(c) == IF c \in DOMAIN ToLower THEN ToLower[c] ELSE c

Upper(s) == [i \in 1..Len(s) |-> UpperChar(s[i])]

Lower(s) == [i \in 1..Len(s) |-> LowerChar(s[i])]

\* pat occurs in s as a substring (re.search of a literal pattern)
Contains(s, pat) ==
    \E i \in 0..(Len(s) - Len(pat)) : SubSeq(s, i + 1, i + Len(pat)) = pat

\* re.search(pat, s, re.IGNORECASE) of a literal pattern
ContainsNoCase(s, pat) == Contains(Lower(s), Lower(pat))

Max(a, b) == IF a >= b THEN a ELSE b

Min(a, b) == IF a <= b THEN a ELSE b

----------------------------------------------------------------------------
(* Column names and cell values *)

\* The spelling of every piece of text the model handles (column names,
\* genotype labels, gender tokens): text is held as a string and read
\* character by character through this table.
Spelling ==
    [sample_id |-> <<"s","a","m","p","l","e","_","i","d">>,
     apoe_genotype |-> <<"a","p","o","e","_","g","e","n","o","t","y","p","e">>,
     gender |-> <<"g","e","n","d","e","r">>,
     Gender |-> <<"G","e","n","d","e","r">>,
     sex |-> <<"s","e","x">>,
     Sex |-> <<"S","e","x">>,
     SEX |-> <<"S","E","X">>,
     age |-> <<"a","g","e">>,
     Age |-> <<"A","g","e">>,
     year_of_birth |-> <<"y","e","a","r","_","o","f","_","b","i","r","t","h">>,
     Year_Of_Birth |-> <<"Y","e","a","r","_","O","f","_","B","i","r","t","h">>,
     is_e4_carrier |-> <<"i","s","_","e","4","_","c","a","r","r","i","e","r">>,
     stuff |-> <<"s","t","u","f","f">>,
     e2 |-> <<"e","2">>,
     e4 |-> <<"e","4">>,
     Indeterminate |-> <<"I","n","d","e","t","e","r","m","i","n","a","t","e">>,
     indeterminate |-> <<"i","n","d","e","t","e","r","m","i","n","a","t","e">>,
     F |-> <<"F">>,
     f |-> <<"f">>,
     female |-> <<"f","e","m","a","l","e">>,
     Female |-> <<"F","e","m","a","l","e">>,
     FEMALE |-> <<"F","E","M","A","L","E">>,
     M |-> <<"M">>,
     m |-> <<"m">>,
     male |-> <<"m","a","l","e">>,
     Male |-> <<"M","a","l","e">>,
     MALE |-> <<"M","A","L","E">>,
     U |-> <<"U">>,
     other |-> <<"o","t","h","e","r">>,
     NA |-> <<"N","A">>,
     inf |-> <<"i","n","f">>,
     nan |-> <<"n","a","n">>,
     infinity |-> <<"i","n","f","i","n","i","t","y">>]
    @@ ("e3/e3" :> <<"e","3","/","e","3">>)
    @@ ("e3/e4" :> <<"e","3","/","e","4">>)
    @@ ("e4/e4" :> <<"e","4","/","e","4">>)
    @@ ("E3/E4" :> <<"E","3","/","E","4">>)
    @@ ("e2/e2" :> <<"e","2","/","e","2">>)
    @@ ("e2/e3" :> <<"e","2","/","e","3">>)
    @@ ("e2/e4" :> <<"e","2","/","e","4">>)
    @@ ("E2/E3" :> <<"E","2","/","E","3">>)
    @@ ("1" :> <<"1">>)
    @@ ("2" :> <<"2">>)
    @@ ("" :> <<>>)

\* str.upper() and str.lower() of a piece of text, as spellings
upper(s) == Upper(Spelling[s])

lower(s) == Lower(Spelling[s])

\* Series.str.contains(pat, case=False, na=False) on one cell
str_contains(s, pat) == ContainsNoCase(Spelling[s], Spelling[pat])

\* the column set stratify() requires (line 146)
required == {"sample_id", "apoe_genotype", "gender", "age"}

\* isin([...]) lists of the gender arms (lines 169, 180)
FEMALE_TOKENS == {"F", "FEMALE", "2"}

MALE_TOKENS == {"M", "MALE", "1"}

\* StratificationConfig.__post_init__ default bands
DEFAULT_AGE_BANDS ==
    << <<35, 39>>, <<40, 44>>, <<45, 49>>, <<50, 54>>,
       <<55, 59>>, <<60, 64>>, <<65, 69>> >>

----------------------------------------------------------------------------
(* DataFrame operations *)

EmptyTable == [columns |-> {}, rows |-> <<>>]

\* DataFrame.rename(columns={old: new})
rename(t, old, new) ==
    LET cols == (t.columns \ {old}) \cup {new}
    IN  [columns |-> cols,
         rows |-> [i \in 1..Len(t.rows) |->
                     [c \in cols |-> IF c = new THEN t.rows[i][old]
                                     ELSE t.rows[i][c]]]]

\* df[name] = values: add or overwrite a column, one value per row
assign(t, name, values) ==
    LET cols == t.columns \cup {name}
    IN  [columns |-> cols,
         rows |-> [i \in 1..Len(t.rows) |->
                     [c \in cols |-> IF c = name THEN values[i]
                                     ELSE t.rows[i][c]]]]

\* df[mask]: the rows whose entry of the boolean mask is true, in their order
filter(t, mask) ==
    LET kept(i) == mask[i]
        index == SelectSeq([i \in 1..Len(t.rows) |-> i], kept)
    IN  [t EXCEPT !.rows = [k \in 1..Len(index) |-> t.rows[index[k]]]]

\* head() taking the last n rows instead of the first
head_from_end(rows, n) ==
    IF n >= 0 THEN SubSeq(rows, Len(rows) - Min(n, Len(rows)) + 1, Len(rows))
    ELSE SubSeq(rows, 1, Max(0, Len(rows) + n))

\* DataFrame.head(n): the first n rows; all but the last -n when n < 0
head(rows, n) ==
    IF n >= 0 THEN SubSeq(rows, 1, Min(n, Len(rows)))
    ELSE SubSeq(rows, 1, Max(0, Len(rows) + n))

RECURSIVE concat(_)
\* pd.concat(parts, ignore_index=True)
concat(parts) ==
    IF parts = <<>> THEN <<>>
    ELSE Head(parts) \o concat(Tail(parts))

\* a fraction num/den: the carrier ratio as the caller writes it, e.g. 0.58
\* as 58/100
Ratio(n, d) == [num |-> n, den |-> d]

\* the number of binary digits of a positive integer below 2^30
bit_length(n) == CHOOSE b \in 1..30 : 2 ^ (b - 1) <= n /\ n < 2 ^ b

\* a float of 53 significant bits in three limbs: the value
\* (hi * 2^40 + mid * 2^20 + lo) / 2^scale
Double(hi, mid, lo, scale) == [hi |-> hi, mid |-> mid, lo |-> lo, scale |-> scale]

\* one added to the last place of the limbs, the carry passed upwards
next_up(x) ==
    IF x.lo + 1 < 2 ^ 20 THEN [x EXCEPT !.lo = x.lo + 1]
    ELSE IF x.mid + 1 < 2 ^ 20 THEN [x EXCEPT !.lo = 0, !.mid = x.mid + 1]
    ELSE [x EXCEPT !.lo = 0, !.mid = 0, !.hi = x.hi + 1]

\* the float Python holds for a ratio written as num/den, 0 <= num <= den <=
\* 1000: the 53-bit value nearest to the fraction, ties to even
float_of(ratio) ==
    IF ratio.num = 0 THEN Double(0, 0, 0, 52)
    ELSE LET d == ratio.den
             k == CHOOSE j \in 0..10 :
                      /\ ratio.num * 2 ^ j >= d
                      /\ j > 0 => ratio.num * 2 ^ (j - 1) < d
             a == ratio.num * 2 ^ k
             hi == (a * 2 ^ 12) \div d
             r1 == (a * 2 ^ 12) % d
             mid == (r1 * 2 ^ 20) \div d
             r2 == (r1 * 2 ^ 20) % d
             lo == (r2 * 2 ^ 20) \div d
             r3 == (r2 * 2 ^ 20) % d
             down == Double(hi, mid, lo, 52 + k)
         IN  IF 2 * r3 > d \/ (2 * r3 = d /\ lo % 2 = 1) THEN next_up(down)
             ELSE down

\* int * float for 0 <= n < 2^11: the exact product rounded to 53
\* significant bits, ties to even
float_times(n, x) ==
    IF n = 0 \/ x.hi = 0 THEN Double(0, 0, 0, x.scale)
    ELSE LET p0 == x.lo * n
             p1 == x.mid * n + p0 \div 2 ^ 20
             product == Double(x.hi * n + p1 \div 2 ^ 20, p1 % 2 ^ 20,
                               p0 % 2 ^ 20, x.scale)
             extra == bit_length(product.hi) - 13
             unit == 2 ^ extra
             rest == product.lo % unit
             down == [product EXCEPT !.lo = product.lo - rest]
             up == IF down.lo + unit < 2 ^ 20
                   THEN [down EXCEPT !.lo = down.lo + unit]
                   ELSE next_up([down EXCEPT !.lo = 2 ^ 20 - 1])
         IN  IF \/ 2 * rest > unit
                \/ 2 * rest = unit /\ (product.lo \div unit) % 2 = 1
             THEN up
             ELSE down

\* int() of a float that is not negative: the digits above the binary point
int_of(x) == x.hi \div 2 ^ (x.scale - 40)

\* int(target_count * carrier_ratio), line 204
int_times(target_count, ratio) ==
    int_of(float_times(target_count, float_of(ratio)))

----------------------------------------------------------------------------
(* CohortStratifier *)

\* normalise_columns() renaming only a column spelled sex in lower case
normalise_columns_exact(t) ==
    IF "gender" \notin t.columns /\ "sex" \in t.columns
    THEN rename(t, "sex", "gender")
    ELSE t

\* lines 135-138: rename a sex column (any capitalisation) to gender
normalise_columns(t) ==
    LET keys == {lower(c) : c \in t.columns}
        col_map == [k \in keys |-> CHOOSE c \in t.columns : lower(c) = k]
    IN  IF Spelling["gender"] \notin keys /\ Spelling["sex"] \in keys
        THEN rename(t, col_map[Spelling["sex"]], "gender")
        ELSE t

\* derive_age() overwriting an age column that is present
derive_age_always(t, current_year) ==
    LET keys == {lower(c) : c \in t.columns}
        col_map == [k \in keys |-> CHOOSE c \in t.columns : lower(c) = k]
    IN  IF Spelling["year_of_birth"] \in keys
        THEN assign(t, "age",
                    [i \in 1..Len(t.rows) |->
                       current_year
                           - t.rows[i][col_map[Spelling["year_of_birth"]]]])
        ELSE t

\* lines 136, 140-144: derive age from a year_of_birth column (any
\* capitalisation) when no column is named age (in any capitalisation)
derive_age(t, current_year) ==
    LET keys == {lower(c) : c \in t.columns}
        col_map == [k \in keys |-> CHOOSE c \in t.columns : lower(c) = k]
    IN  IF Spelling["year_of_birth"] \in keys /\ Spelling["age"] \notin keys
        THEN assign(t, "age",
                    [i \in 1..Len(t.rows) |->
                       current_year
                           - t.rows[i][col_map[Spelling["year_of_birth"]]]])
        ELSE t

\* the caller's table after lines 133-144 had df been the cohort itself
\* instead of a copy: a rename makes a new object, an assignment to df["age"]
\* writes into df's object
cohort_after_no_copy(c, current_year) ==
    IF normalise_columns(c) = c THEN derive_age(c, current_year) ELSE c

\* line 133: the caller's table after lines 133-144; df is a deep copy, so
\* the assignments to df's columns do not reach it
cohort_after(c, current_year) == c

\* prepare() without the year_of_birth fallback
prepare_no_fallback(t, current_year) == normalise_columns(t)

\* prepare() without the sex alias
prepare_no_alias(t, current_year) == derive_age(t, current_year)

\* lines 133-144
prepare(t, current_year) == derive_age(normalise_columns(t), current_year)

\* lines 146-147
missing_columns(t) == required \ t.columns

\* exclude() matching e2 in lower case only
exclude_case_sensitive(t, cfg) ==
    LET not_e2(d) == [i \in 1..Len(d.rows) |->
                        ~Contains(Spelling[d.rows[i]["apoe_genotype"]],
                                  Spelling["e2"])]
        determinate(d) == [i \in 1..Len(d.rows) |->
                             d.rows[i]["apoe_genotype"] # "Indeterminate"]
        d1 == IF cfg.exclude_e2_carriers THEN filter(t, not_e2(t)) ELSE t
    IN  filter(d1, determinate(d1))

\* exclude() without the Indeterminate rule
exclude_keep_indeterminate(t, cfg) ==
    LET not_e2(d) == [i \in 1..Len(d.rows) |->
                        ~str_contains(d.rows[i]["apoe_genotype"], "e2")]
    IN  IF cfg.exclude_e2_carriers THEN filter(t, not_e2(t)) ELSE t

\* lines 153-156: the two exclusion rules
exclude(t, cfg) ==
    LET not_e2(d) == [i \in 1..Len(d.rows) |->
                        ~str_contains(d.rows[i]["apoe_genotype"], "e2")]
        determinate(d) == [i \in 1..Len(d.rows) |->
                             d.rows[i]["apoe_genotype"] # "Indeterminate"]
        d1 == IF cfg.exclude_e2_carriers THEN filter(t, not_e2(t)) ELSE t
    IN  filter(d1, determinate(d1))

\* classify() matching e4 in lower case only
classify_case_sensitive(t) ==
    assign(t, "is_e4_carrier",
           [i \in 1..Len(t.rows) |->
              Contains(Spelling[t.rows[i]["apoe_genotype"]], Spelling["e4"])])

\* line 160: the carrier flag
classify(t) ==
    assign(t, "is_e4_carrier",
           [i \in 1..Len(t.rows) |->
              str_contains(t.rows[i]["apoe_genotype"], "e4")])

\* gender_rows() without str.upper()
gender_rows_exact(t, tokens) ==
    LET match(r) == Spelling[r["gender"]] \in {Spelling[k] : k \in tokens}
    IN  SelectSeq(t.rows, match)

\* lines 169, 180: the rows of one gender
gender_rows(t, tokens) ==
    LET match(r) == upper(r["gender"]) \in {Spelling[k] : k \in tokens}
    IN  SelectSeq(t.rows, match)

\* sample_by_age_bands() without the floor of one slot per band
sample_by_age_bands_no_floor(rows, target, age_bands) ==
    LET per_band == target \div Len(age_bands)
        remainder == target - per_band * Len(age_bands)
        part(i) ==
            LET lo == age_bands[i][1]
                hi == age_bands[i][2]
                in_band(r) == r["age"] >= lo /\ r["age"] <= hi
                band_df == SelectSeq(rows, in_band)
                n == per_band + (IF i - 1 < remainder THEN 1 ELSE 0)
            IN  head(band_df, Min(n, Len(band_df)))
    IN  concat([i \in 1..Len(age_bands) |-> part(i)])

\* band_quota() giving the extra slots to the last bands
band_quota_extra_last(target, age_bands, i) ==
    LET per_band == Max(1, target \div Len(age_bands))
        remainder == target - per_band * Len(age_bands)
    IN  per_band + (IF Len(age_bands) - i < remainder THEN 1 ELSE 0)

\* lines 234-235 and 240: n, the slots of the band at position i of the
\* list (i counts from 1, enumerate() from 0)
band_quota(target, age_bands, i) ==
    LET per_band == Max(1, target \div Len(age_bands))
        remainder == target - per_band * Len(age_bands)
    IN  per_band + (IF i - 1 < remainder THEN 1 ELSE 0)

\* sample_by_age_bands() taking each band as open-ended above
sample_by_age_bands_no_upper(rows, target, age_bands) ==
    LET part(i) ==
            LET lo == age_bands[i][1]
                in_band(r) == r["age"] >= lo
                band_df == SelectSeq(rows, in_band)
                n == band_quota(target, age_bands, i)
            IN  head(band_df, Min(n, Len(band_df)))
    IN  concat([i \in 1..Len(age_bands) |-> part(i)])

\* lines 227-243
sample_by_age_bands(rows, target, age_bands) ==
    LET part(i) ==
            LET lo == age_bands[i][1]
                hi == age_bands[i][2]
                in_band(r) == r["age"] >= lo /\ r["age"] <= hi
                band_df == SelectSeq(rows, in_band)
                n == band_quota(target, age_bands, i)
            IN  head(band_df, Min(n, Len(band_df)))
    IN  concat([i \in 1..Len(age_bands) |-> part(i)])

\* select_arm() handing the slots the carriers left unused to the
\* non-carriers
select_arm_borrowing(rows, arm_name, target_count, carrier_ratio, age_bands) ==
    LET is_carrier(r) == r["is_e4_carrier"]
        not_carrier(r) == ~r["is_e4_carrier"]
        carriers == SelectSeq(rows, is_carrier)
        non_carriers == SelectSeq(rows, not_carrier)
        n_carriers == int_times(target_count, carrier_ratio)
        selected_carriers ==
            IF age_bands # <<>>
            THEN sample_by_age_bands(carriers, n_carriers, age_bands)
            ELSE head(carriers, Min(n_carriers, Len(carriers)))
        n_non_carriers == target_count - Len(selected_carriers)
        selected_non ==
            IF age_bands # <<>>
            THEN sample_by_age_bands(non_carriers, n_non_carriers, age_bands)
            ELSE head(non_carriers, Min(n_non_carriers, Len(non_carriers)))
        combined == selected_carriers \o selected_non
    IN  [arm_name |-> arm_name,
         participants |-> combined,
         summary |-> [target |-> target_count,
                      selected |-> Len(combined),
                      e4_carriers |-> Len(selected_carriers),
                      non_carriers |-> Len(selected_non),
                      available_carriers |-> Len(carriers),
                      available_non_carriers |-> Len(non_carriers)]]

\* select_arm() putting the non-carrier selection first
select_arm_non_carriers_first(rows, arm_name, target_count, carrier_ratio, age_bands) ==
    LET is_carrier(r) == r["is_e4_carrier"]
        not_carrier(r) == ~r["is_e4_carrier"]
        carriers == SelectSeq(rows, is_carrier)
        non_carriers == SelectSeq(rows, not_carrier)
        n_carriers == int_times(target_count, carrier_ratio)
        n_non_carriers == target_count - n_carriers
        selected_carriers ==
            IF age_bands # <<>>
            THEN sample_by_age_bands(carriers, n_carriers, age_bands)
            ELSE head(carriers, Min(n_carriers, Len(carriers)))
        selected_non ==
            IF age_bands # <<>>
            THEN sample_by_age_bands(non_carriers, n_non_carriers, age_bands)
            ELSE head(non_carriers, Min(n_non_carriers, Len(non_carriers)))
        combined == selected_non \o selected_carriers
    IN  [arm_name |-> arm_name,
         participants |-> combined,
         summary |-> [target |-> target_count,
                      selected |-> Len(combined),
                      e4_carriers |-> Len(selected_carriers),
                      non_carriers |-> Len(selected_non),
                      available_carriers |-> Len(carriers),
                      available_non_carriers |-> Len(non_carriers)]]

\* lines 192-225
select_arm(rows, arm_name, target_count, carrier_ratio, age_bands) ==
    LET is_carrier(r) == r["is_e4_carrier"]
        not_carrier(r) == ~r["is_e4_carrier"]
        carriers == SelectSeq(rows, is_carrier)
        non_carriers == SelectSeq(rows, not_carrier)
        n_carriers == int_times(target_count, carrier_ratio)
        n_non_carriers == target_count - n_carriers
        selected_carriers ==
            IF age_bands # <<>>
            THEN sample_by_age_bands(carriers, n_carriers, age_bands)
            ELSE head(carriers, Min(n_carriers, Len(carriers)))
        selected_non ==
            IF age_bands # <<>>
            THEN sample_by_age_bands(non_carriers, n_non_carriers, age_bands)
            ELSE head(non_carriers, Min(n_non_carriers, Len(non_carriers)))
        combined == selected_carriers \o selected_non
    IN  [arm_name |-> arm_name,
         participants |-> combined,
         summary |-> [target |-> target_count,
                      selected |-> Len(combined),
                      e4_carriers |-> Len(selected_carriers),
                      non_carriers |-> Len(selected_non),
                      available_carriers |-> Len(carriers),
                      available_non_carriers |-> Len(non_carriers)]]

\* female_arm() building the arm whatever the target count
female_arm_any_target(t, cfg) ==
    LET females == gender_rows(t, FEMALE_TOKENS)
    IN  IF females # <<>>
        THEN <<select_arm(females, "Female", cfg.target_female_count,
                          cfg.apoe_carrier_ratio, cfg.female_age_bands)>>
        ELSE <<>>

\* lines 168-177: the female arm, <<>> when omitted
female_arm(t, cfg) ==
    LET females == gender_rows(t, FEMALE_TOKENS)
    IN  IF females # <<>> /\ cfg.target_female_count > 0
        THEN <<select_arm(females, "Female", cfg.target_female_count,
                          cfg.apoe_carrier_ratio, cfg.female_age_bands)>>
        ELSE <<>>

\* male_arm() taking every record that is not female
male_arm_not_female(t, cfg) ==
    LET not_female(r) ==
            upper(r["gender"]) \notin {Spelling[k] : k \in FEMALE_TOKENS}
        males == SelectSeq(t.rows, not_female)
    IN  IF males # <<>> /\ cfg.target_male_count > 0
        THEN <<select_arm(males, "Male", cfg.target_male_count,
                          cfg.apoe_carrier_ratio, cfg.male_age_bands)>>
        ELSE <<>>

\* lines 179-188: the male arm, <<>> when omitted
male_arm(t, cfg) ==
    LET males == gender_rows(t, MALE_TOKENS)
    IN  IF males # <<>> /\ cfg.target_male_count > 0
        THEN <<select_arm(males, "Male", cfg.target_male_count,
                          cfg.apoe_carrier_ratio, cfg.male_age_bands)>>
        ELSE <<>>

\* total_selected counting the female arm only
total_selected_female_only(r) ==
    IF r.female_list # <<>> THEN Len(r.female_list[1].participants) ELSE 0

\* StratificationResult.total_selected (lines 86-93)
total_selected(r) ==
    (IF r.female_list # <<>> THEN Len(r.female_list[1].participants) ELSE 0)
    + (IF r.male_list # <<>> THEN Len(r.male_list[1].participants) ELSE 0)

\* stratify() as a function of its inputs and the year the clock shows:
\* the composition of the steps below
stratify(c, cfg, current_year) ==
    LET d0 == prepare(c, current_year)
        d1 == classify(exclude(d0, cfg))
    IN  IF missing_columns(d0) # {}
        THEN [raised |-> TRUE, missing |-> missing_columns(d0), result |-> <<>>]
        ELSE [raised |-> FALSE, missing |-> {},
              result |-> <<[config |-> cfg,
                            female_list |-> female_arm(d1, cfg),
                            male_list |-> male_arm(d1, cfg),
                            excluded_count |-> Len(d0.rows) - Len(d1.rows),
                            total_eligible |-> Len(d1.rows)]>>]

----------------------------------------------------------------------------
(* APOECaller (src/src/apoe_toolkit/caller.py) *)

\* lines 35-50: the APOE genotype of a pair of SNP genotypes
APOE_DIPLOTYPE_MAP ==
    (<<"TT", "TT">> :> "e2/e2")
    @@ (<<"TT", "CC">> :> "e3/e3")
    @@ (<<"CC", "CC">> :> "e4/e4")
    @@ (<<"TT", "CT">> :> "e2/e3")
    @@ (<<"TT", "TC">> :> "e2/e3")
    @@ (<<"CT", "CC">> :> "e3/e4")
    @@ (<<"TC", "CC">> :> "e3/e4")
    @@ (<<"CT", "CT">> :> "e2/e4")
    @@ (<<"TC", "TC">> :> "e2/e4")
    @@ (<<"CT", "TC">> :> "e2/e4")
    @@ (<<"TC", "CT">> :> "e2/e4")

\* dict.get(key, default)
get(d, key, default) == IF key \in DOMAIN d THEN d[key] ELSE default

\* A dose is what a cell of the .raw table holds: a float (in tenths), nan,
\* an infinity, a piece of text, or None.
Float(t) == [kind |-> "float", tenths |-> t, text |-> ""]

NaN == [kind |-> "nan", tenths |-> 0, text |-> ""]

Infinity == [kind |-> "inf", tenths |-> 0, text |-> ""]

Text(s) == [kind |-> "str", tenths |-> 0, text |-> s]

None == [kind |-> "none", tenths |-> 0, text |-> ""]

DigitValue ==
    ("0" :> 0) @@ ("1" :> 1) @@ ("2" :> 2) @@ ("3" :> 3) @@ ("4" :> 4)
    @@ ("5" :> 5) @@ ("6" :> 6) @@ ("7" :> 7) @@ ("8" :> 8) @@ ("9" :> 9)

DigitText == <<"0", "1", "2", "3", "4", "5", "6", "7", "8", "9">>

RECURSIVE decimal(_)
\* the value of a sequence of digits
decimal(digits) ==
    IF digits = <<>> THEN 0
    ELSE 10 * decimal(SubSeq(digits, 1, Len(digits) - 1))
             + DigitValue[digits[Len(digits)]]

\* float(text): digits, the words inf, infinity and nan in any letter case;
\* anything else is a ValueError
parse_float(sp) ==
    IF sp # <<>> /\ \A i \in 1..Len(sp) : sp[i] \in DOMAIN DigitValue
    THEN [raised |-> "", value |-> Float(10 * decimal(sp))]
    ELSE IF Lower(sp) \in {Spelling["inf"], Spelling["infinity"]}
    THEN [raised |-> "", value |-> Infinity]
    ELSE IF Lower(sp) = Spelling["nan"]
    THEN [raised |-> "", value |-> NaN]
    ELSE [raised |-> "ValueError", value |-> NaN]

\* float(dose)
float(dose) ==
    IF dose.kind = "none" THEN [raised |-> "TypeError", value |-> NaN]
    ELSE IF dose.kind = "str" THEN parse_float(Spelling[dose.text])
    ELSE [raised |-> "", value |-> dose]

\* round(x) of a float: the nearest integer, a tie going to the even one;
\* a ValueError for nan, an OverflowError for an infinity
round(x) ==
    IF x.kind = "nan" THEN [raised |-> "ValueError", value |-> 0]
    ELSE IF x.kind = "inf" THEN [raised |-> "OverflowError", value |-> 0]
    ELSE LET q == x.tenths \div 10
             r == x.tenths % 10
         IN  [raised |-> "",
              value |-> IF r < 5 THEN q
                        ELSE IF r > 5 THEN q + 1
                        ELSE IF q % 2 = 0 THEN q ELSE q + 1]

\* int(round(float(dose)))
int_round_float(dose) ==
    LET f == float(dose)
    IN  IF f.raised # "" THEN [raised |-> f.raised, value |-> 0]
        ELSE round(f.value)

\* str(dose)
str(dose) ==
    IF dose.kind = "none" THEN "None"
    ELSE IF dose.kind = "str" THEN dose.text
    ELSE IF dose.kind = "nan" THEN "nan"
    ELSE IF dose.kind = "inf" THEN "inf"
    ELSE LET a == IF dose.tenths < 0 THEN -dose.tenths ELSE dose.tenths
         IN  (IF dose.tenths < 0 THEN "-" ELSE "")
                 \o DigitText[(a \div 10) + 1] \o "." \o DigitText[(a % 10) + 1]

\* lines 283-284
gt_429_map == (0 :> "TT") @@ (1 :> "CT") @@ (2 :> "CC")

gt_741_map == (0 :> "CC") @@ (1 :> "CT") @@ (2 :> "TT")

\* lines 265-290: the exception that leaves the function ("" when none) and
\* the triple returned
dosage_to_diplotype(dose_429, dose_741) ==
    LET d429 == int_round_float(dose_429)
        d741 == int_round_float(dose_741)
        caught == {"ValueError", "TypeError"}
        gt_429 == get(gt_429_map, d429.value, "??")
        gt_741 == get(gt_741_map, d741.value, "??")
    IN  IF d429.raised \in caught
        THEN [raised |-> "",
              value |-> <<"Indeterminate", str(dose_429), str(dose_741)>>]
        ELSE IF d429.raised # ""
        THEN [raised |-> d429.raised, value |-> <<>>]
        ELSE IF d741.raised \in caught
        THEN [raised |-> "",
              value |-> <<"Indeterminate", str(dose_429), str(dose_741)>>]
        ELSE IF d741.raised # ""
        THEN [raised |-> d741.raised, value |-> <<>>]
        ELSE [raised |-> "",
              value |-> <<get(APOE_DIPLOTYPE_MAP, <<gt_429, gt_741>>,
                              "Indeterminate"), gt_429, gt_741>>]

\* lines 52-59
RISK_PROFILES ==
    [l \in {"e2/e2", "e2/e3", "e3/e3", "e2/e4", "e3/e4", "e4/e4"} |->
       CASE l \in {"e2/e2", "e2/e3"} -> "Reduced risk"
         [] l = "e3/e3" -> "Population baseline"
         [] l = "e2/e4" -> "Uncertain / mixed"
         [] l = "e3/e4" -> "Increased risk"
         [] l = "e4/e4" -> "Substantially increased risk"]

\* lines 62-72
APOEResult(sample_id, gt_429, gt_741, genotype, risk, e4, e2) ==
    [sample_id |-> sample_id, rs429358_genotype |-> gt_429,
     rs7412_genotype |-> gt_741, apoe_genotype |-> genotype,
     risk_profile |-> risk, is_e4_carrier |-> e4, is_e2_carrier |-> e2]

\* lines 75-84: APOESummary(total_samples=n)
APOESummary(n) ==
    [total_samples |-> n, genotype_counts |-> <<>>, e4_carrier_count |-> 0,
     e2_carrier_count |-> 0, e3e3_count |-> 0, indeterminate_count |-> 0]

\* d[key] = value on a dict
put(d, key, value) ==
    [k \in DOMAIN d \cup {key} |-> IF k = key THEN value ELSE d[k]]

RECURSIVE summarise_loop_by_label(_, _)
\* the loop of summarise() reading the carrier status off the genotype label
summarise_loop_by_label(rs, s) ==
    IF rs = <<>> THEN s
    ELSE LET r == Head(rs)
             gt == r.apoe_genotype
         IN  summarise_loop_by_label(Tail(rs),
                 [s EXCEPT
                    !.genotype_counts =
                        put(@, gt, get(@, gt, 0) + 1),
                    !.e4_carrier_count =
                        IF Contains(Spelling[gt], Spelling["e4"])
                        THEN @ + 1 ELSE @,
                    !.e2_carrier_count =
                        IF Contains(Spelling[gt], Spelling["e2"])
                        THEN @ + 1 ELSE @,
                    !.e3e3_count = IF gt = "e3/e3" THEN @ + 1 ELSE @,
                    !.indeterminate_count =
                        IF gt = "Indeterminate" THEN @ + 1 ELSE @])

RECURSIVE summarise_loop(_, _)
\* lines 310-321: the loop of summarise() over the results left
summarise_loop(rs, s) ==
    IF rs = <<>> THEN s
    ELSE LET r == Head(rs)
             gt == r.apoe_genotype
         IN  summarise_loop(Tail(rs),
                 [s EXCEPT
                    !.genotype_counts =
                        put(@, gt, get(@, gt, 0) + 1),
                    !.e4_carrier_count = IF r.is_e4_carrier THEN @ + 1 ELSE @,
                    !.e2_carrier_count = IF r.is_e2_carrier THEN @ + 1 ELSE @,
                    !.e3e3_count = IF gt = "e3/e3" THEN @ + 1 ELSE @,
                    !.indeterminate_count =
                        IF gt = "Indeterminate" THEN @ + 1 ELSE @])

\* lines 296-322
summarise(rs) == summarise_loop(rs, APOESummary(Len(rs)))

----------------------------------------------------------------------------
(* APOEFeasibilityEstimator (src/src/apoe_toolkit/feasibility.py) *)

\* the elements of a list
set(list) == { list[i] : i \in 1..Len(list) }

\* lines 30-41; an Optional list is <<>> (None) or <<list>>; the order of
\* list(exclude_set) is that of the set's hashing, so exclusion_criteria is
\* kept as the set of its elements
FeasibilityReport(study_name, total, targets, exclusions) ==
    [study_name |-> study_name, total_genotyped |-> total,
     eligible_count |-> 0, target_genotypes |-> targets,
     genotype_breakdown |-> <<>>, exclusion_criteria |-> exclusions,
     excluded_count |-> 0, notes |-> ""]

\* eligibility_rate dividing whatever the total
eligibility_rate_unguarded(r) ==
    IF r.total_genotyped = 0
    THEN [raised |-> "ZeroDivisionError", value |-> Ratio(0, 1)]
    ELSE [raised |-> "", value |-> Ratio(r.eligible_count, r.total_genotyped)]

\* lines 43-48: the property eligibility_rate, a fraction
eligibility_rate(r) ==
    IF r.total_genotyped = 0
    THEN [raised |-> "", value |-> Ratio(0, 1)]
    ELSE [raised |-> "", value |-> Ratio(r.eligible_count, r.total_genotyped)]

\* lines 112-117: the target set (<<>> for None) and the exclusion set
target_set_of(target_genotypes) ==
    IF target_genotypes # <<>> /\ target_genotypes[1] # <<>>
    THEN <<set(target_genotypes[1])>>
    ELSE <<>>

exclude_set_of(exclude_genotypes, exclude_indeterminate) ==
    (IF exclude_genotypes # <<>> /\ exclude_genotypes[1] # <<>>
     THEN set(exclude_genotypes[1]) ELSE {})
    \cup (IF exclude_indeterminate THEN {"Indeterminate"} ELSE {})

RECURSIVE estimate_loop_targets_first(_, _, _, _)
\* the loop of estimate_from_results() testing the targets before the
\* exclusions
estimate_loop_targets_first(rs, target_set, exclude_set, rep) ==
    IF rs = <<>> THEN rep
    ELSE LET gt == Head(rs).apoe_genotype
             counted == [rep EXCEPT !.genotype_breakdown =
                                        put(@, gt, get(@, gt, 0) + 1)]
         IN  estimate_loop_targets_first(Tail(rs), target_set, exclude_set,
                 IF target_set = <<>> \/ gt \in target_set[1]
                 THEN [counted EXCEPT !.eligible_count = @ + 1]
                 ELSE IF gt \in exclude_set
                 THEN [counted EXCEPT !.excluded_count = @ + 1]
                 ELSE counted)

RECURSIVE estimate_loop(_, _, _, _)
\* lines 126-141: the loop of estimate_from_results() over the results left
estimate_loop(rs, target_set, exclude_set, rep) ==
    IF rs = <<>> THEN rep
    ELSE LET gt == Head(rs).apoe_genotype
             counted == [rep EXCEPT !.genotype_breakdown =
                                        put(@, gt, get(@, gt, 0) + 1)]
         IN  estimate_loop(Tail(rs), target_set, exclude_set,
                 IF gt \in exclude_set
                 THEN [counted EXCEPT !.excluded_count = @ + 1]
                 ELSE IF target_set = <<>> \/ gt \in target_set[1]
                 THEN [counted EXCEPT !.eligible_count = @ + 1]
                 ELSE counted)

\* lines 83-142
estimate_from_results(rs, study_name, targets, excludes, indeterminate) ==
    LET target_set == target_set_of(targets)
        exclude_set == exclude_set_of(excludes, indeterminate)
        rep == FeasibilityReport(
                   study_name, Len(rs),
                   IF targets # <<>> /\ targets[1] # <<>>
                   THEN targets[1] ELSE <<>>,
                   exclude_set)
    IN  estimate_loop(rs, target_set, exclude_set, rep)

\* lines 171-227: call_from_csv() on the file at the path (<<>> when there is
\* none, else <<table>>) with the column names given
call_from_csv(file, sample_col, rs429358_col, rs7412_col) ==
    IF file = <<>>
    THEN [raised |-> "FileNotFoundError", value |-> <<>>]
    ELSE IF {sample_col, rs429358_col, rs7412_col} \ file[1].columns # {}
    THEN [raised |-> "ValueError", value |-> <<>>]
    ELSE [raised |-> "",
          value |->
            [i \in 1..Len(file[1].rows) |->
               LET row == file[1].rows[i]
                   gt_429 == row[rs429358_col]
                   gt_741 == row[rs7412_col]
                   genotype == get(APOE_DIPLOTYPE_MAP, <<gt_429, gt_741>>,
                                   "Indeterminate")
               IN  APOEResult(row[sample_col], gt_429, gt_741, genotype,
                              get(RISK_PROFILES, genotype, "Unknown"),
                              Contains(Spelling[genotype], Spelling["e4"]),
                              Contains(Spelling[genotype], Spelling["e2"]))]]

\* lines 144-154: the parameters of estimate_from_csv() after self, the
\* required ones and the defaults of the others
estimate_from_csv_parameters ==
    {"filepath", "study_name", "target_genotypes", "exclude_genotypes",
     "sample_col", "rs429358_col", "rs7412_col", "sep"}

estimate_from_csv_required == {"filepath"}

estimate_from_csv_defaults ==
    [study_name |-> "Unnamed Study", target_genotypes |-> <<>>,
     exclude_genotypes |-> <<>>, sample_col |-> "IID",
     rs429358_col |-> "rs429358", rs7412_col |-> "rs7412", sep |-> ","]

\* a call by keyword arguments is bound to the parameters: a TypeError when a
\* keyword names no parameter or a required parameter gets no value
bind(parameters, required_parameters, defaults, kwargs) ==
    IF \/ DOMAIN kwargs \ parameters # {}
       \/ required_parameters \ DOMAIN kwargs # {}
    THEN [raised |-> "TypeError", value |-> <<>>]
    ELSE [raised |-> "",
          value |-> [p \in parameters |->
                       IF p \in DOMAIN kwargs THEN kwargs[p]
                       ELSE defaults[p]]]

\* lines 175-188: the body of estimate_from_csv() on its bound parameters,
\* files the content of the file system by path
estimate_from_csv_body(p, files) ==
    LET called == call_from_csv(files[p.filepath], p.sample_col,
                                p.rs429358_col, p.rs7412_col)
    IN  IF called.raised # ""
        THEN [raised |-> called.raised, value |-> <<>>]
        ELSE [raised |-> "",
              value |-> estimate_from_results(called.value, p.study_name,
                                              p.target_genotypes,
                                              p.exclude_genotypes, TRUE)]

\* lines 144-188: estimate_from_csv() called with keyword arguments
estimate_from_csv(kwargs, files) ==
    LET bound == bind(estimate_from_csv_parameters,
                      estimate_from_csv_required,
                      estimate_from_csv_defaults, kwargs)
    IN  IF bound.raised # ""
        THEN [raised |-> bound.raised, value |-> <<>>]
        ELSE estimate_from_csv_body(bound.value, files)

\* lines 190-228: format_report(), the text as the values it shows
format_report(r) ==
    [study_name |-> r.study_name,
     total_genotyped |-> r.total_genotyped,
     eligible_count |-> r.eligible_count,
     eligibility_rate |-> eligibility_rate(r).value,
     excluded_count |-> r.excluded_count,
     target_genotypes |-> IF r.target_genotypes # <<>>
                          THEN <<r.target_genotypes>> ELSE <<"All">>,
     exclusion_criteria |-> IF r.exclusion_criteria # {}
                            THEN <<r.exclusion_criteria>> ELSE <<"None">>,
     genotype_breakdown |-> r.genotype_breakdown]

----------------------------------------------------------------------------
(* Command line (src/src/apoe_toolkit/cli.py) *)

\* lines 55-72: the arguments of the feasibility sub-command; an option not
\* given (<<>>) takes its default
parse_args(command_line) ==
    [command |-> "feasibility",
     input |-> command_line.input,
     targets |-> IF command_line.targets = <<>>
                 THEN <<"e4/e4", "e3/e4">>
                 ELSE command_line.targets[1],
     confidence |-> IF command_line.confidence = <<>>
                    THEN Ratio(95, 100)
                    ELSE command_line.confidence[1]]

\* lines 134-142: cmd_feasibility(), the exception that leaves it ("" when
\* none) and the text it prints
cmd_feasibility(args, files) ==
    LET estimated ==
            estimate_from_csv([csv_path |-> args.input,
                               target_diplotypes |-> <<args.targets>>,
                               confidence_level |-> args.confidence], files)
    IN  IF estimated.raised # ""
        THEN [raised |-> estimated.raised, stdout |-> <<>>]
        ELSE [raised |-> "", stdout |-> <<format_report(estimated.value)>>]

----------------------------------------------------------------------------
(* Inputs *)

Row(id, genotype, gender, age) ==
    [sample_id |-> id, apoe_genotype |-> genotype, gender |-> gender,
     age |-> age]

\* cohorts of n rows drawn from the genotypes, gender tokens and ages given,
\* the sample ids pairwise distinct
Cohorts(n, genotypes, genders, ages) ==
    { [columns |-> required,
       rows |-> [i \in 1..n |-> Row(i, f[i][1], f[i][2], f[i][3])]] :
      f \in [1..n -> genotypes \X genders \X ages] }

Config(tf, tm, ratio, e2, fb, mb) ==
    [target_female_count |-> tf, target_male_count |-> tm,
     apoe_carrier_ratio |-> ratio, exclude_e2_carriers |-> e2,
     female_age_bands |-> fb, male_age_bands |-> mb]

Years == {2026}

\* band lists: none, one band, two adjacent bands, two overlapping bands,
\* the default seven
BandLists ==
    { <<>>,
      << <<40, 44>> >>,
      << <<35, 39>>, <<40, 44>> >>,
      << <<35, 42>>, <<40, 44>> >>,
      DEFAULT_AGE_BANDS }

\* small cohorts under varied targets, ratios and band lists
InitBands ==
    /\ cohort \in UNION { Cohorts(n, {"e3/e3", "e3/e4"}, {"F", "M"}, {39, 41}) :
                          n \in 0..MaxRows }
    /\ config \in { Config(tf, MaxTarget - tf, r, TRUE, b, b) :
                      tf \in 0..MaxTarget,
                      r \in {Ratio(0, 1), Ratio(1, 2), Ratio(1, 1)},
                      b \in BandLists }

\* small cohorts of varied genotype labels, with and without the e2 rule
InitLabels ==
    /\ cohort \in UNION { Cohorts(n, {"e3/e3", "e3/e4", "E3/E4", "E2/E3",
                                      "e2/e4", "Indeterminate",
                                      "indeterminate"},
                                  {"F", "M"}, {41}) :
                          n \in 0..MaxRows }
    /\ config \in { Config(2, 1, Ratio(1, 2), e2, b, b) :
                      e2 \in BOOLEAN, b \in {<<>>, DEFAULT_AGE_BANDS} }

\* small cohorts of varied gender tokens
InitGenders ==
    /\ cohort \in UNION { Cohorts(n, {"e3/e3", "e3/e4"},
                                  {"F", "f", "Female", "FEMALE", "2",
                                   "M", "male", "1", "U", ""}, {41}) :
                          n \in 0..MaxRows }
    /\ config = Config(2, 1, Ratio(1, 2), TRUE, << <<40, 44>> >>, <<>>)

\* the rows of the cohorts of varied column sets, every column filled in;
\* the second row's year of birth does not agree with its age
FullRows ==
    { <<>>,
      << [sample_id |-> 1, apoe_genotype |-> "e3/e4", gender |-> "F",
          age |-> 39, year_of_birth |-> 1987, stuff |-> 1] >>,
      << [sample_id |-> 1, apoe_genotype |-> "e3/e4", gender |-> "F",
          age |-> 39, year_of_birth |-> 1987, stuff |-> 1],
         [sample_id |-> 2, apoe_genotype |-> "e3/e3", gender |-> "M",
          age |-> 44, year_of_birth |-> 1990, stuff |-> 1] >> }

\* the columns that hold the gender value
GenderColumns ==
    { {}, {"gender"}, {"sex"}, {"Sex"}, {"SEX"}, {"Gender"}, {"gender", "sex"} }

\* the columns that hold the age and the year of birth
AgeColumns == { {}, {"age"}, {"Age"} }

BirthColumns == { {}, {"year_of_birth"}, {"Year_Of_Birth"} }

ColumnSets ==
    { g \cup a \cup b \cup o :
        g \in GenderColumns, a \in AgeColumns, b \in BirthColumns,
        o \in SUBSET {"sample_id", "apoe_genotype"} }
    \cup { {"sample_id", "stuff"} }

\* rows cut down to the columns cols, the gender value under each gender
\* column, the age under each age column, the year under each birth column
Project(rows, cols) ==
    [i \in 1..Len(rows) |->
       [c \in cols |->
          IF c \in UNION GenderColumns THEN rows[i]["gender"]
          ELSE IF c \in UNION AgeColumns THEN rows[i]["age"]
          ELSE IF c \in UNION BirthColumns THEN rows[i]["year_of_birth"]
          ELSE rows[i][c]]]

\* cohorts of varied column sets
InitColumns ==
    /\ cohort \in { [columns |-> cols, rows |-> Project(rows, cols)] :
                     cols \in ColumnSets, rows \in FullRows }
    /\ config \in { Config(1, 1, Ratio(1, 2), TRUE, b, b) :
                      b \in { << <<40, 44>> >>, DEFAULT_AGE_BANDS } }

\* one block of rows per default age band: a carrier, a non-carrier or both,
\* all female, under a target of 3
BandBlocks == { <<"e3/e4">>, <<"e3/e3">>, <<"e3/e4", "e3/e3">> }

FloorCohort(f) ==
    LET genotypes == concat([b \in 1..Len(DEFAULT_AGE_BANDS) |-> f[b]])
        ages == concat([b \in 1..Len(DEFAULT_AGE_BANDS) |->
                          [k \in 1..Len(f[b]) |-> DEFAULT_AGE_BANDS[b][1]]])
    IN  [columns |-> required,
         rows |-> [i \in 1..Len(genotypes) |->
                     Row(i, genotypes[i], "F", ages[i])]]

InitFloor ==
    /\ cohort \in { FloorCohort(f) :
                     f \in [1..Len(DEFAULT_AGE_BANDS) -> BandBlocks] }
    /\ config \in { Config(3, 3, r, TRUE,
                            DEFAULT_AGE_BANDS, DEFAULT_AGE_BANDS) :
                      r \in {Ratio(1, 2), Ratio(1, 1)} }

\* long female cohorts of carriers and non-carriers, no age bands, under a
\* target of 10 and a carrier ratio of 0.5
InitQuota ==
    /\ cohort \in UNION { Cohorts(n, {"e3/e3", "e3/e4"}, {"F"}, {50}) :
                          n \in {10, 11} }
    /\ config = Config(10, 10, Ratio(1, 2), TRUE, <<>>, <<>>)

\* the band lists of the cohorts in blocks: the first two and the first
\* three of the default bands
SlotBands ==
    { SubSeq(DEFAULT_AGE_BANDS, 1, 2), SubSeq(DEFAULT_AGE_BANDS, 1, 3) }

\* a cohort in blocks, one block per band of the first three default bands:
\* f[b] carriers followed by two non-carriers, all of the band's lowest age,
\* the non-carriers of the third band male and everyone else female; the
\* blocks in band order, or the whole cohort in reverse
SlotCohort(f, reversed) ==
    LET block(b) == [k \in 1..(f[b] + 2) |->
                       <<IF k <= f[b] THEN "e3/e4" ELSE "e3/e3",
                         IF k > f[b] /\ b = 3 THEN "M" ELSE "F",
                         DEFAULT_AGE_BANDS[b][1]>>]
        blocks == concat([b \in 1..3 |-> block(b)])
        n == Len(blocks)
        order == [i \in 1..n |-> IF reversed THEN blocks[n + 1 - i]
                                 ELSE blocks[i]]
    IN  [columns |-> required,
         rows |-> [i \in 1..n |->
                     Row(i, order[i][1], order[i][2], order[i][3])]]

\* cohorts in blocks under targets that the band count divides and targets
\* that it does not, the male arm over three bands
InitSlots ==
    /\ cohort \in { SlotCohort(f, reversed) :
                     f \in [1..3 -> {0, 1, 3}], reversed \in BOOLEAN }
    /\ config \in { Config(t, t, r, TRUE, b, SubSeq(DEFAULT_AGE_BANDS, 1, 3)) :
                      t \in 0..(MaxTarget + 3),
                      r \in {Ratio(1, 2), Ratio(1, 1)},
                      b \in SlotBands }

\* a cohort of one gender: c carriers followed by n non-carriers
SplitCohort(c, n, gender) ==
    [columns |-> required,
     rows |-> [i \in 1..(c + n) |->
                 Row(i, IF i <= c THEN "e3/e4" ELSE "e3/e3", gender, 50)]]

\* long cohorts without age bands under targets of 10 and 50 and carrier
\* ratios written with two decimals
InitSplit ==
    /\ cohort \in { SplitCohort(c, n, g) :
                     c \in {28, 30}, n \in {21, 23}, g \in {"F", "M"} }
    /\ config \in { Config(t, t, r, TRUE, <<>>, <<>>) :
                      t \in {10, 50},
                      r \in {Ratio(1, 2), Ratio(57, 100), Ratio(58, 100),
                             Ratio(7, 10)} }

\* the state before the first call
Idle ==
    /\ year \in Years
    /\ pc = "idle"
    /\ df = EmptyTable
    /\ result = <<>>
    /\ error = {}
    /\ runs = 0
    /\ first = <<>>

\* nothing of the caller, the estimator or the command line has run
ToolkitIdle ==
    /\ doses = <<>>
    /\ call = <<>>
    /\ results = <<>>
    /\ criteria = <<>>
    /\ summary = <<>>
    /\ report = <<>>
    /\ argv = <<>>
    /\ cli = <<>>

Init ==
    /\ \/ InitBands
       \/ InitLabels
       \/ InitGenders
       \/ InitColumns
       \/ InitFloor
       \/ InitQuota
       \/ InitSlots
       \/ InitSplit
    /\ Idle
    /\ ToolkitIdle

\* no call of stratify() is under way: an empty cohort, before the call
StratifierIdle ==
    /\ cohort = EmptyTable
    /\ config = Config(0, 0, Ratio(1, 2), TRUE, <<>>, <<>>)
    /\ Idle

\* the doses a cell of the .raw table may hold: whole numbers from -1 to
\* MaxDose, fractions, nan, infinity, text and None
Doses ==
    { Float(10 * n) : n \in -1..MaxDose }
    \cup { Float(t) : t \in {-4, 4, 5, 6, 15, 24, 25} }
    \cup { NaN, Infinity, Text("NA"), Text("inf"), Text(""), None }

\* one row of a .raw table, before _dosage_to_diplotype is called on it
InitDosage ==
    /\ doses \in Doses \X Doses
    /\ call = <<>>
    /\ results = <<>>
    /\ criteria = <<>>
    /\ summary = <<>>
    /\ report = <<>>
    /\ argv = <<>>
    /\ cli = <<>>
    /\ StratifierIdle

\* the results the lists are drawn from: the carrier flags agree with the
\* label except in the last, an e3/e3 flagged as an e4 carrier
ResultChoices ==
    { APOEResult("s", "TT", "CC", "e3/e3", "Population baseline",
                 FALSE, FALSE),
      APOEResult("s", "CT", "CC", "e3/e4", "Increased risk", TRUE, FALSE),
      APOEResult("s", "CT", "CT", "e2/e4", "Uncertain / mixed", TRUE, TRUE),
      APOEResult("s", "TT", "CT", "e2/e3", "Reduced risk", FALSE, TRUE),
      APOEResult("s", "??", "CC", "Indeterminate", "Unknown", FALSE, FALSE),
      APOEResult("s", "TT", "CC", "e3/e3", "Population baseline",
                 TRUE, FALSE) }

\* the target and the exclusion lists: None, the empty list, lists that
\* share a genotype
TargetLists ==
    { <<>>, << <<>> >>, << <<"e3/e4">> >>, << <<"e3/e4", "e4/e4">> >>,
      << <<"e2/e4", "e3/e4">> >> }

ExcludeLists ==
    { <<>>, << <<>> >>, << <<"e2/e4">> >>,
      << <<"e2/e2", "e2/e3", "e2/e4">> >> }

\* a list of up to MaxResults results and the arguments of the estimate
InitResults ==
    /\ results \in UNION { [1..n -> ResultChoices] : n \in 0..MaxResults }
    /\ criteria \in [study_name : {"Unnamed Study"},
                     target_genotypes : TargetLists,
                     exclude_genotypes : ExcludeLists,
                     exclude_indeterminate : BOOLEAN]
    /\ summary = <<>>
    /\ report = <<>>
    /\ doses = <<>>
    /\ call = <<>>
    /\ argv = <<>>
    /\ cli = <<>>
    /\ StratifierIdle

\* the SNP genotypes of a row of a CSV file
SnpGenotypes == { <<"TT", "CC">>, <<"CT", "CC">>, <<"CT", "CT">> }

\* the column names of a CSV file: those call_from_csv() reads by default,
\* those the call sub-command writes, and a file without the SNP columns
CsvColumns ==
    { {"IID", "rs429358", "rs7412"},
      {"sample_id", "rs429358", "rs7412", "apoe_genotype"},
      {"IID"} }

CsvCell(column, i, snps) ==
    IF column \in {"IID", "sample_id"} THEN i
    ELSE IF column = "rs429358" THEN snps[1]
    ELSE IF column = "rs7412" THEN snps[2]
    ELSE get(APOE_DIPLOTYPE_MAP, snps, "Indeterminate")

\* the file at the input path: none, or a table of up to MaxResults rows
CsvFiles ==
    { <<>> }
    \cup { << [columns |-> cols,
              rows |-> [i \in 1..n |->
                          [c \in cols |-> CsvCell(c, i, f[i])]]] >> :
             cols \in CsvColumns,
             n \in 0..MaxResults,
             f \in [1..MaxResults -> SnpGenotypes] }

\* a command line "feasibility --input results.csv [--targets ...]
\* [--confidence ...]" and the file system it runs on
InitCli ==
    /\ argv \in { [input |-> "results.csv", targets |-> t, confidence |-> c,
                    files |-> [path \in {"results.csv"} |-> file]] :
                   t \in { <<>>, << <<"e4/e4", "e3/e4">> >>,
                           << <<"e3/e3">> >> },
                   c \in { <<>>, <<Ratio(9, 10)>> },
                   file \in CsvFiles }
    /\ cli = [pc |-> "start", args |-> <<>>, stdout |-> <<>>, raised |-> ""]
    /\ doses = <<>>
    /\ call = <<>>
    /\ results = <<>>
    /\ criteria = <<>>
    /\ summary = <<>>
    /\ report = <<>>
    /\ StratifierIdle

\* the inputs of the runs that call stratify() twice
InitTwice ==
    /\ \/ InitLabels
       \/ InitGenders
       \/ InitColumns
    /\ Idle
    /\ ToolkitIdle

----------------------------------------------------------------------------
(* Actions *)

\* lines 133-149: copy, normalise the columns, derive age, check the
\* required columns
Prepare ==
    /\ pc = "idle"
    /\ LET d == prepare(cohort, year)
       IN  /\ df' = d
           /\ \/ /\ missing_columns(d) # {}
                 /\ error' = missing_columns(d)
                 /\ pc' = "raised"
              \/ /\ missing_columns(d) = {}
                 /\ error' = {}
                 /\ pc' = "prepared"
    /\ cohort' = cohort_after(cohort, year)
    /\ UNCHANGED <<config, year, result, runs, first>>
    /\ UNCHANGED toolkit

\* lines 151-166: exclusions, carrier flag, the result object
ApplyExclusions ==
    /\ pc = "prepared"
    /\ LET initial_count == Len(df.rows)
           d == exclude(df, config)
           excluded == initial_count - Len(d.rows)
       IN  /\ df' = classify(d)
           /\ result' = <<[config |-> config,
                           female_list |-> <<>>,
                           male_list |-> <<>>,
                           excluded_count |-> excluded,
                           total_eligible |-> Len(d.rows)]>>
    /\ pc' = "eligible"
    /\ UNCHANGED <<cohort, config, year, error, runs, first>>
    /\ UNCHANGED toolkit

\* lines 168-177
StratifyFemales ==
    /\ pc = "eligible"
    /\ result' = <<[result[1] EXCEPT !.female_list = female_arm(df, config)]>>
    /\ pc' = "females"
    /\ UNCHANGED <<cohort, config, year, df, error, runs, first>>
    /\ UNCHANGED toolkit

\* lines 179-190
StratifyMales ==
    /\ pc = "females"
    /\ result' = <<[result[1] EXCEPT !.male_list = male_arm(df, config)]>>
    /\ pc' = "done"
    /\ UNCHANGED <<cohort, config, year, df, error, runs, first>>
    /\ UNCHANGED toolkit

Outcome == [raised |-> pc = "raised", missing |-> error, result |-> result,
            year |-> year]

\* the caller calls stratify() a second time with the same arguments
CallAgain ==
    /\ pc \in {"done", "raised"}
    /\ runs = 0
    /\ first' = <<Outcome>>
    /\ runs' = 1
    /\ pc' = "idle"
    /\ df' = EmptyTable
    /\ result' = <<>>
    /\ error' = {}
    /\ UNCHANGED <<cohort, config, year>>
    /\ UNCHANGED toolkit

\* the calendar year changes between the two calls
NewYear ==
    /\ pc = "idle"
    /\ runs = 1
    /\ year \in Years
    /\ year' = year + 1
    /\ UNCHANGED <<cohort, config, pc, df, result, error, runs, first>>
    /\ UNCHANGED toolkit

\* the variables of the stratifier
stratifier == <<cohort, config, year, pc, df, result, error, runs, first>>

\* caller.py lines 249, 265-290: _dosage_to_diplotype on the doses of a row
DosageToDiplotype ==
    /\ doses # <<>>
    /\ call = <<>>
    /\ call' = <<dosage_to_diplotype(doses[1], doses[2])>>
    /\ UNCHANGED <<doses, results, criteria, summary, report, argv, cli>>
    /\ UNCHANGED stratifier

\* caller.py lines 296-322: summarise() on the list of results
Summarise ==
    /\ summary = <<>>
    /\ summary' = <<summarise(results)>>
    /\ UNCHANGED <<doses, call, results, criteria, report, argv, cli>>
    /\ UNCHANGED stratifier

\* feasibility.py lines 83-142: estimate_from_results() on the list of
\* results
EstimateFromResults ==
    /\ report = <<>>
    /\ report' = <<estimate_from_results(results, criteria.study_name,
                                         criteria.target_genotypes,
                                         criteria.exclude_genotypes,
                                         criteria.exclude_indeterminate)>>
    /\ UNCHANGED <<doses, call, results, criteria, summary, argv, cli>>
    /\ UNCHANGED stratifier

\* cli.py lines 170-172: main() parses the command line
ParseArgs ==
    /\ cli.pc = "start"
    /\ cli' = [cli EXCEPT !.pc = "parsed", !.args = <<parse_args(argv)>>]
    /\ UNCHANGED <<doses, call, results, criteria, summary, report, argv>>
    /\ UNCHANGED stratifier

\* cli.py lines 174-185, 134-142: main() dispatches to cmd_feasibility()
CmdFeasibility ==
    /\ cli.pc = "parsed"
    /\ LET ran == cmd_feasibility(cli.args[1], argv.files)
       IN  cli' = [cli EXCEPT !.pc = "exited", !.stdout = ran.stdout,
                              !.raised = ran.raised]
    /\ UNCHANGED <<doses, call, results, criteria, summary, report, argv>>
    /\ UNCHANGED stratifier

\* one call of stratify()
Next ==
    \/ Prepare
    \/ ApplyExclusions
    \/ StratifyFemales
    \/ StratifyMales

Spec == Init /\ [][Next]_vars

\* two calls of stratify() on the same cohort and configuration, the year
\* possibly changing in between
NextTwice ==
    \/ Prepare
    \/ ApplyExclusions
    \/ StratifyFemales
    \/ StratifyMales
    \/ CallAgain
    \/ NewYear

SpecTwice == InitTwice /\ [][NextTwice]_vars

\* one call of _dosage_to_diplotype()
NextDosage == DosageToDiplotype

SpecDosage == InitDosage /\ [][NextDosage]_vars

\* summarise() and estimate_from_results() on one list of results
NextResults ==
    \/ Summarise
    \/ EstimateFromResults

SpecResults == InitResults /\ [][NextResults]_vars

\* one run of "apoe-toolkit feasibility"
NextCli ==
    \/ ParseArgs
    \/ CmdFeasibility

SpecCli == InitCli /\ [][NextCli]_vars

----------------------------------------------------------------------------
(* Properties *)

\* the call has returned a result
Returned == pc = "done"

\* the participants of an arm, none for an omitted arm
Participants(list) == IF list = <<>> THEN <<>> ELSE list[1].participants

\* the sample ids selected, female arm first
SelectedIds ==
    LET rows == Participants(result[1].female_list)
                    \o Participants(result[1].male_list)
    IN  [i \in 1..Len(rows) |-> rows[i]["sample_id"]]

DistinctIds(t) ==
    \A i, j \in 1..Len(t.rows) :
        i # j => t.rows[i]["sample_id"] # t.rows[j]["sample_id"]

\* the bands of a list are pairwise disjoint intervals
Disjoint(bands) ==
    \A i, j \in 1..Len(bands) :
        i # j => bands[i][2] < bands[j][1] \/ bands[j][2] < bands[i][1]

\* C1: for a cohort of pairwise distinct sample ids and any configuration,
\* no sample id appears twice in the female arm's selection followed by the
\* male arm's.
C1_NoDuplicateSelection ==
    (Returned /\ DistinctIds(cohort)) =>
        \A i, j \in 1..Len(SelectedIds) :
            i # j => SelectedIds[i] # SelectedIds[j]

\* the arms present in the result
Arms == { a \in {result[1].female_list, result[1].male_list} : a # <<>> }

\* C3: in every arm of every result, the number selected does not exceed the
\* arm's eligible pool: selected <= available_carriers + available_non_carriers.
C3_SelectedWithinPool ==
    Returned =>
        \A a \in Arms :
            a[1].summary.selected <=
                a[1].summary.available_carriers
                    + a[1].summary.available_non_carriers

\* the eligible rows (df after the exclusions) of the two gender pools
FemalePool == gender_rows(df, FEMALE_TOKENS)

MalePool == gender_rows(df, MALE_TOKENS)

\* the rows of a sequence whose age lies in the closed band
InBand(rows, band) ==
    LET inside(r) == r["age"] >= band[1] /\ r["age"] <= band[2]
    IN  SelectSeq(rows, inside)

Carriers(rows) ==
    LET yes(r) == r["is_e4_carrier"]
    IN  SelectSeq(rows, yes)

NonCarriers(rows) ==
    LET no(r) == ~r["is_e4_carrier"]
    IN  SelectSeq(rows, no)

\* an arm was run with target 3 over 7 pairwise disjoint age bands, each band
\* holding at least one record of the arm's eligible pool
FloorCase(list, pool, target, bands) ==
    /\ Returned
    /\ list # <<>>
    /\ target = 3
    /\ Len(bands) = 7
    /\ Disjoint(bands)
    /\ \A b \in 1..Len(bands) : InBand(pool, bands[b]) # <<>>

\* the floor-of-one statement read per band: one record from every band,
\* 7 in all
FloorOfOnePerBand(list, pool, target, bands) ==
    FloorCase(list, pool, target, bands) =>
        /\ \A b \in 1..Len(bands) :
               Len(InBand(list[1].participants, bands[b])) = 1
        /\ list[1].summary.selected = 7

\* the floor of one applies to the carriers and to the non-carriers of each
\* band separately
FloorOfOnePerGroup(list, pool, target, bands) ==
    FloorCase(list, pool, target, bands) =>
        /\ \A b \in 1..Len(bands) :
               LET got == InBand(list[1].participants, bands[b])
                   have == InBand(pool, bands[b])
               IN  /\ Len(Carriers(got)) = Min(1, Len(Carriers(have)))
                   /\ Len(NonCarriers(got)) = Min(1, Len(NonCarriers(have)))
                   /\ Len(got) \in {1, 2}
        /\ list[1].summary.selected >= 7
        /\ list[1].summary.selected <= 14
        /\ list[1].summary.selected = 7 <=>
               \A b \in 1..Len(bands) :
                   \/ Carriers(InBand(pool, bands[b])) = <<>>
                   \/ NonCarriers(InBand(pool, bands[b])) = <<>>

\* C2 as stated: with target 3 and 7 age bands, each holding at least one
\* eligible record, every band contributes exactly 1 record and the arm's
\* selected count is 7.
C2_FloorOfOneSeven ==
    Returned =>
        /\ FloorOfOnePerBand(result[1].female_list, FemalePool,
                             config.target_female_count,
                             config.female_age_bands)
        /\ FloorOfOnePerBand(result[1].male_list, MalePool,
                             config.target_male_count, config.male_age_bands)

\* C2 amended: with target 3 and 7 disjoint age bands, each holding at least
\* one eligible record, every band contributes one carrier if it holds one and
\* one non-carrier if it holds one, so the arm's selected count lies between 7
\* and 14 and is 7 exactly when no band holds both a carrier and a non-carrier.
C2_FloorOfOnePerGroup ==
    Returned =>
        /\ FloorOfOnePerGroup(result[1].female_list, FemalePool,
                              config.target_female_count,
                              config.female_age_bands)
        /\ FloorOfOnePerGroup(result[1].male_list, MalePool,
                              config.target_male_count, config.male_age_bands)

\* an arm run under the floor case selected more than 7 records
C2_Witness ==
    /\ Returned
    /\ FloorCase(result[1].female_list, FemalePool,
                 config.target_female_count, config.female_age_bands)
    /\ result[1].female_list[1].summary.selected > 7

\* the second call has ended
SecondEnded == runs = 1 /\ pc \in {"done", "raised"}

\* the second call ended as the first did
SameOutcome ==
    /\ first[1].raised = Outcome.raised
    /\ first[1].missing = Outcome.missing
    /\ first[1].result = Outcome.result

SpellsE2(label) ==
    \E i \in 1..(Len(Spelling[label]) - 1) :
        Spelling[label][i] \in {"e", "E"} /\ Spelling[label][i + 1] = "2"

\* C5: with exclude_e2_carriers set no selected participant's genotype
\* contains e2 in any letter case, and whatever the flag no selected
\* participant has the label Indeterminate.
C5_ExclusionCorrect ==
    Returned =>
        \A a \in Arms : \A i \in 1..Len(a[1].participants) :
            LET label == a[1].participants[i]["apoe_genotype"]
            IN  /\ config.exclude_e2_carriers => ~SpellsE2(label)
                /\ label # "Indeterminate"

\* a cohort holding an upper-case e2 label went through the e2 rule, which
\* removed it, and someone else was selected
C5_Witness ==
    /\ Returned
    /\ config.exclude_e2_carriers
    /\ \E i \in 1..Len(cohort.rows) :
           cohort.rows[i]["apoe_genotype"] = "E2/E3"
    /\ result[1].excluded_count > 0
    /\ total_selected(result[1]) > 0

\* C6: total_selected is the number of participants of the female arm plus
\* that of the male arm, an omitted arm counting zero.
C6_TotalSelected ==
    Returned =>
        total_selected(result[1]) =
            Len(Participants(result[1].female_list))
                + Len(Participants(result[1].male_list))

\* one arm omitted, the other not empty
C6_Witness ==
    /\ Returned
    /\ result[1].female_list = <<>>
    /\ result[1].male_list # <<>>
    /\ total_selected(result[1]) > 0

\* the first n rows
FirstRows(rows, n) == [i \in 1..n |-> rows[i]]

\* without age bands: the first min(sub-target, size) carriers, then the first
\* min(sub-target, size) non-carriers, the carrier sub-target being
\* floor(target * ratio) and the non-carrier one the rest
QuotaSelection(list, pool, target, bands) ==
    (list # <<>> /\ bands = <<>>) =>
        LET ratio == config.apoe_carrier_ratio
            sub_carrier == (target * ratio.num) \div ratio.den
            sub_non == target - sub_carrier
            c == Carriers(pool)
            n == NonCarriers(pool)
        IN  /\ list[1].participants =
                   FirstRows(c, Min(sub_carrier, Len(c)))
                       \o FirstRows(n, Min(sub_non, Len(n)))
            /\ (target = 10 /\ ratio = Ratio(1, 2)
                    /\ Len(c) >= 5 /\ Len(n) >= 5) =>
                   /\ list[1].summary.e4_carriers = 5
                   /\ list[1].summary.non_carriers = 5

\* C7: when an arm has no age bands each group's selection is its first
\* min(sub-target, group size) records in input order, the carrier sub-target
\* being floor(target * ratio) and the non-carrier sub-target the rest; with
\* target 10, ratio 0.5 and at least 5 records in each group, 5 carriers and
\* 5 non-carriers are selected.
C7_QuotaWithoutBands ==
    Returned =>
        /\ QuotaSelection(result[1].female_list, FemalePool,
                          config.target_female_count, config.female_age_bands)
        /\ QuotaSelection(result[1].male_list, MalePool,
                          config.target_male_count, config.male_age_bands)

\* target 10, ratio 0.5, no bands, more carriers than the quota
C7_Witness ==
    /\ Returned
    /\ config.target_female_count = 10
    /\ config.apoe_carrier_ratio = Ratio(1, 2)
    /\ config.female_age_bands = <<>>
    /\ Len(Carriers(FemalePool)) >= 6
    /\ Len(NonCarriers(FemalePool)) >= 5
    /\ result[1].female_list # <<>>
    /\ result[1].female_list[1].summary.e4_carriers = 5

\* the required fields that cannot be resolved from the cohort's columns:
\* gender from a gender column or, when no column is named gender in any
\* capitalisation, from a sex column in any capitalisation; age from an age
\* column or, when no column is named age in any capitalisation, from a
\* year_of_birth column in any capitalisation
Unresolved(t) ==
    { c \in {"sample_id", "apoe_genotype"} : c \notin t.columns }
    \cup (IF \/ "gender" \in t.columns
             \/ /\ "Gender" \notin t.columns
                /\ t.columns \cap {"sex", "Sex", "SEX"} # {}
          THEN {} ELSE {"gender"})
    \cup (IF \/ "age" \in t.columns
             \/ /\ "Age" \notin t.columns
                /\ t.columns \cap {"year_of_birth", "Year_Of_Birth"} # {}
          THEN {} ELSE {"age"})

FemaleAliases == {"F", "f", "female", "Female", "FEMALE", "2"}

MaleAliases == {"M", "m", "male", "Male", "MALE", "1"}

\* the cohort with every alias replaced by the single letter of its gender
Canonical(t) ==
    [t EXCEPT !.rows =
        [i \in 1..Len(t.rows) |->
           [c \in t.columns |->
              IF c \notin UNION GenderColumns THEN t.rows[i][c]
              ELSE IF t.rows[i][c] \in FemaleAliases THEN "F"
              ELSE IF t.rows[i][c] \in MaleAliases THEN "M"
              ELSE t.rows[i][c]]]]

\* an arm as its sample ids and summary
ArmView(list) ==
    IF list = <<>> THEN <<>>
    ELSE <<[ids |-> [i \in 1..Len(list[1].participants) |->
                       list[1].participants[i]["sample_id"]],
            summary |-> list[1].summary]>>

\* a result without the gender cells of its participants
View(r) ==
    [female |-> ArmView(r.female_list), male |-> ArmView(r.male_list),
     excluded_count |-> r.excluded_count, total_eligible |-> r.total_eligible]

\* C9: an eligible record whose gender is an alias of female (male) in any
\* letter case is routed to the female (male) pool, and replacing every token
\* by the single letter of its gender does not change the result.
C9_GenderAliases ==
    Returned =>
        /\ \A i \in 1..Len(df.rows) :
               /\ df.rows[i]["gender"] \in FemaleAliases =>
                      \E k \in 1..Len(FemalePool) : FemalePool[k] = df.rows[i]
               /\ df.rows[i]["gender"] \in MaleAliases =>
                      \E k \in 1..Len(MalePool) : MalePool[k] = df.rows[i]
        /\ View(result[1]) =
               View(stratify(Canonical(cohort), config, year).result[1])

\* a record spelled Female was selected into the female arm
C9_Witness ==
    /\ Returned
    /\ result[1].female_list # <<>>
    /\ \E i \in 1..Len(result[1].female_list[1].participants) :
           result[1].female_list[1].participants[i]["gender"] = "Female"

\* C10: the result holds a female (male) arm exactly when some eligible
\* record has a female (male) gender token and the arm's target count is
\* positive; otherwise the arm is absent.
C10_ArmOmission ==
    Returned =>
        /\ result[1].female_list # <<>> <=>
               /\ \E i \in 1..Len(df.rows) :
                      df.rows[i]["gender"] \in FemaleAliases
               /\ config.target_female_count > 0
        /\ result[1].male_list # <<>> <=>
               /\ \E i \in 1..Len(df.rows) :
                      df.rows[i]["gender"] \in MaleAliases
               /\ config.target_male_count > 0

\* eligible female records under a female target of zero: no female arm
C10_Witness ==
    /\ Returned
    /\ config.target_female_count = 0
    /\ \E i \in 1..Len(df.rows) : df.rows[i]["gender"] \in FemaleAliases
    /\ result[1].female_list = <<>>
    /\ result[1].male_list # <<>>

\* the call has passed the exclusions
Excluded == pc \in {"eligible", "females", "done"}

\* the record's label falls under an exclusion rule in force
UnderExclusion(label) ==
    \/ config.exclude_e2_carriers /\ SpellsE2(label)
    \/ label = "Indeterminate"

\* the two exclusion rules applied in the other order: the Indeterminate rule
\* first, the e2 rule second
exclude_indeterminate_first(t, cfg) ==
    LET not_e2(d) == [i \in 1..Len(d.rows) |->
                        ~str_contains(d.rows[i]["apoe_genotype"], "e2")]
        determinate(d) == [i \in 1..Len(d.rows) |->
                             d.rows[i]["apoe_genotype"] # "Indeterminate"]
        d1 == filter(t, determinate(t))
    IN  IF cfg.exclude_e2_carriers THEN filter(d1, not_e2(d1)) ELSE d1

\* C11: excluded_count is the number of input records whose label contains e2
\* in any letter case (when exclude_e2_carriers is set) or is Indeterminate,
\* each counted once; total_eligible + excluded_count is the size of the
\* cohort; and the count is the same when the Indeterminate rule is applied
\* before the e2 rule.
C11_ExclusionAccounting ==
    Excluded =>
        /\ result[1].excluded_count =
               Cardinality({ i \in 1..Len(cohort.rows) :
                               UnderExclusion(cohort.rows[i]["apoe_genotype"]) })
        /\ result[1].total_eligible + result[1].excluded_count
               = Len(cohort.rows)
        /\ result[1].excluded_count =
               Len(cohort.rows)
                   - Len(exclude_indeterminate_first(prepare(cohort, year),
                                                     config).rows)

\* both rules removed a record of the same cohort
C11_Witness ==
    /\ Returned
    /\ config.exclude_e2_carriers
    /\ \E i, j \in 1..Len(cohort.rows) :
           /\ cohort.rows[i]["apoe_genotype"] = "e2/e4"
           /\ cohort.rows[j]["apoe_genotype"] = "Indeterminate"
    /\ result[1].excluded_count = 2

\* the gender value is a token of neither gender
UnknownToken(v) == v \notin FemaleAliases \cup MaleAliases

\* the number of eligible records whose gender value is one of the tokens
Eligible(tokens) ==
    Cardinality({ i \in 1..Len(df.rows) : df.rows[i]["gender"] \in tokens })

\* the records an arm could draw from, as its summary counts them
Available(list) ==
    IF list = <<>> THEN 0
    ELSE list[1].summary.available_carriers
             + list[1].summary.available_non_carriers

\* C12: an eligible record whose gender value is a token of neither gender is
\* selected into no arm and counted in no arm's available_* counts, is not
\* counted in excluded_count and stays counted in total_eligible, and a cohort
\* holding such records never makes the call raise.
C12_UnknownGenderTokens ==
    /\ (pc # "idle" /\ required \subseteq cohort.columns) => pc # "raised"
    /\ Returned =>
           /\ \A i \in 1..Len(df.rows) :
                  UnknownToken(df.rows[i]["gender"]) =>
                      \A k \in 1..Len(SelectedIds) :
                          SelectedIds[k] # df.rows[i]["sample_id"]
           /\ result[1].female_list # <<>> =>
                  Available(result[1].female_list) = Eligible(FemaleAliases)
           /\ result[1].male_list # <<>> =>
                  Available(result[1].male_list) = Eligible(MaleAliases)
           /\ result[1].total_eligible = Len(df.rows)
           /\ result[1].excluded_count = Len(cohort.rows) - Len(df.rows)

\* a cohort holding a record of unknown gender next to a female one, the
\* female arm selected and the unknown record eligible
C12_Witness ==
    /\ Returned
    /\ \E i \in 1..Len(df.rows) : df.rows[i]["gender"] = "U"
    /\ result[1].female_list # <<>>
    /\ result[1].female_list[1].summary.selected = 1
    /\ result[1].total_eligible = 2
    /\ result[1].excluded_count = 0

Ended == pc \in {"done", "raised"}

\* how the call ended: raised or not, the fields named, the result
Ending == [raised |-> Outcome.raised, missing |-> Outcome.missing,
           result |-> Outcome.result]

\* the columns of a table named name in some capitalisation
Named(t, name) == { c \in t.columns : lower(c) = Spelling[name] }

\* C14: a cohort with no gender column and a column named sex in any
\* capitalisation is not refused for its gender field, and the call ends as
\* it does on the same cohort with that column named gender.
C14_SexAlias ==
    (Ended /\ Named(cohort, "gender") = {} /\ Named(cohort, "sex") # {}) =>
        LET sex == CHOOSE c \in Named(cohort, "sex") : TRUE
        IN  /\ "gender" \notin error
            /\ Ending = stratify(rename(cohort, sex, "gender"), config, year)

\* a cohort with a column named Sex was stratified and someone selected
C14_Witness ==
    /\ Returned
    /\ "Sex" \in cohort.columns
    /\ Named(cohort, "gender") = {}
    /\ "gender" \in df.columns
    /\ total_selected(result[1]) > 0

\* the table without one of its columns
without(t, col) ==
    [columns |-> t.columns \ {col},
     rows |-> [i \in 1..Len(t.rows) |->
                 [c \in t.columns \ {col} |-> t.rows[i][c]]]]

DoseTable ==
    (<<0, 0>> :> "e3/e3") @@ (<<0, 1>> :> "e2/e3") @@ (<<0, 2>> :> "e2/e2")
    @@ (<<1, 0>> :> "e3/e4") @@ (<<1, 1>> :> "e2/e4") @@ (<<2, 0>> :> "e4/e4")

\* the dose is the whole number n
Whole(dose, n) == dose = Float(10 * n)

\* C18: _dosage_to_diplotype never raises; it maps the dose pairs (0,0),
\* (0,1), (0,2), (1,0), (1,1), (2,0) to e3/e3, e2/e3, e2/e2, e3/e4, e2/e4,
\* e4/e4 and every other input (another pair, a dose outside 0..2, a
\* non-numeric dose) to Indeterminate.
C18_DosageTable ==
    call # <<>> =>
        /\ call[1].raised = ""
        /\ \A pair \in DOMAIN DoseTable :
               (Whole(doses[1], pair[1]) /\ Whole(doses[2], pair[2])) =>
                   call[1].value[1] = DoseTable[pair]
        /\ (\A pair \in DOMAIN DoseTable :
                ~(Whole(doses[1], pair[1]) /\ Whole(doses[2], pair[2]))) =>
               call[1].value[1] = "Indeterminate"

\* the number of results among those given whose label is in the set
Labelled(labels) ==
    Cardinality({ i \in 1..Len(results) :
                    results[i].apoe_genotype \in labels })

\* the labels of the results given
Labels == { results[i].apoe_genotype : i \in 1..Len(results) }

RECURSIVE Sum(_)
\* the sum of the values of a dict
Sum(d) ==
    IF DOMAIN d = {} THEN 0
    ELSE LET k == CHOOSE k \in DOMAIN d : TRUE
         IN  d[k] + Sum([j \in DOMAIN d \ {k} |-> d[j]])

\* the genotypes excluded by the criteria: exclude_genotypes, and
\* Indeterminate when exclude_indeterminate is set
ExclusionSet ==
    (IF criteria.exclude_genotypes = <<>> THEN {}
     ELSE set(criteria.exclude_genotypes[1]))
    \cup (IF criteria.exclude_indeterminate THEN {"Indeterminate"} ELSE {})

\* target genotypes are given: a list of at least one genotype
TargetsGiven ==
    criteria.target_genotypes # <<>> /\ criteria.target_genotypes[1] # <<>>

\* C16: the report's total_genotyped is the number of results given and its
\* eligible_count the number of results whose genotype is outside the
\* exclusion set and, when target genotypes are given, in the target set; an
\* excluded genotype is not counted eligible even when it is also a target.
C16_EligibleCount ==
    report # <<>> =>
        LET targets == IF TargetsGiven
                       THEN set(criteria.target_genotypes[1])
                       ELSE Labels
        IN  /\ report[1].total_genotyped = Len(results)
            /\ report[1].eligible_count = Labelled(targets \ ExclusionSet)
            /\ report[1].eligible_count
                   <= Len(results) - Labelled(targets \cap ExclusionSet)

\* e2/e4 is both a target and excluded; a result with it and one with the
\* other target e3/e4 were given, and one is eligible
C16_Witness ==
    /\ report # <<>>
    /\ criteria.target_genotypes = << <<"e2/e4", "e3/e4">> >>
    /\ criteria.exclude_genotypes = << <<"e2/e4">> >>
    /\ \E i, j \in 1..Len(results) :
           /\ results[i].apoe_genotype = "e2/e4"
           /\ results[j].apoe_genotype = "e3/e4"
    /\ report[1].eligible_count = 1
    /\ report[1].excluded_count = 1

\* C17: in every report eligible_count + excluded_count <= total_genotyped,
\* the genotype_breakdown counts sum to total_genotyped and eligibility_rate
\* lies in [0, 1]; for an empty list total_genotyped, eligible_count and
\* eligibility_rate are 0 and eligibility_rate does not divide by zero.
C17_ReportInvariants ==
    report # <<>> =>
        LET rate == eligibility_rate(report[1])
        IN  /\ report[1].eligible_count + report[1].excluded_count
                   <= report[1].total_genotyped
            /\ Sum(report[1].genotype_breakdown) = report[1].total_genotyped
            /\ rate.raised = ""
            /\ rate.value.den > 0
            /\ 0 <= rate.value.num
            /\ rate.value.num <= rate.value.den
            /\ results = <<>> =>
                   /\ report[1].total_genotyped = 0
                   /\ report[1].eligible_count = 0
                   /\ rate.value.num = 0

\* a report on the empty list of results
C17_Witness ==
    /\ report # <<>>
    /\ results = <<>>
    /\ report[1].total_genotyped = 0
    /\ report[1].genotype_breakdown = <<>>

\* C19: the summary's total_samples is the length of the list,
\* genotype_counts has one entry per distinct label, each the number of
\* results with that label, summing to total_samples; e4_carrier_count and
\* e2_carrier_count are the numbers of results flagged as e4 and e2 carriers;
\* e3e3_count and indeterminate_count are the genotype_counts of e3/e3 and
\* Indeterminate, 0 when absent.
C19_SummaryCounts ==
    summary # <<>> =>
        LET s == summary[1]
        IN  /\ s.total_samples = Len(results)
            /\ DOMAIN s.genotype_counts = Labels
            /\ \A g \in DOMAIN s.genotype_counts :
                   s.genotype_counts[g] = Labelled({g})
            /\ Sum(s.genotype_counts) = s.total_samples
            /\ s.e4_carrier_count =
                   Cardinality({ i \in 1..Len(results) :
                                   results[i].is_e4_carrier })
            /\ s.e2_carrier_count =
                   Cardinality({ i \in 1..Len(results) :
                                   results[i].is_e2_carrier })
            /\ s.e3e3_count = get(s.genotype_counts, "e3/e3", 0)
            /\ s.indeterminate_count =
                   get(s.genotype_counts, "Indeterminate", 0)

\* a summary of a list holding an e3/e3 result flagged as an e4 carrier and
\* a result of another label
C19_Witness ==
    /\ summary # <<>>
    /\ \E i \in 1..Len(results) :
           results[i].apoe_genotype = "e3/e3" /\ results[i].is_e4_carrier
    /\ summary[1].e4_carrier_count = 1
    /\ summary[1].e3e3_count = 1
    /\ summary[1].total_samples = 2

\* the input file exists and holds the columns estimate_from_csv() reads
ReadableInput ==
    /\ argv.files[argv.input] # <<>>
    /\ {"IID", "rs429358", "rs7412"} \subseteq argv.files[argv.input][1].columns

\* the report of the estimate on the input file for the targets of the
\* command line
ExpectedReport ==
    estimate_from_csv([filepath |-> argv.input,
                       target_genotypes |-> <<cli.args[1].targets>>],
                      argv.files)

\* C20: "feasibility --input <results.csv> --targets <genotypes...>" on a
\* readable input file ends without an exception, having printed the formatted
\* report of the estimate on that file for the given targets.
C20_FeasibilityCommandReports ==
    (cli # <<>> /\ cli.pc = "exited" /\ ReadableInput) =>
        /\ cli.raised = ""
        /\ ExpectedReport.raised = ""
        /\ cli.stdout = <<format_report(ExpectedReport.value)>>

----------------------------------------------------------------------------
(* Band quotas *)

\* the slots stated for band i, counted from 0, of k bands under a
\* sub-target s
Quota(s, k, i) ==
    Max(1, s \div k) + (IF i < s - Max(1, s \div k) * k THEN 1 ELSE 0)

RECURSIVE QuotaSum(_, _, _)
\* the stated slots of the first n of k bands, added up
QuotaSum(s, k, n) ==
    IF n = 0 THEN 0 ELSE QuotaSum(s, k, n - 1) + Quota(s, k, n - 1)

\* the carrier and the non-carrier sub-target of an arm
SubTargets(target) ==
    LET n_carriers == int_times(target, config.apoe_carrier_ratio)
    IN  <<n_carriers, target - n_carriers>>

\* the slots of every band of one group follow the stated formula and add up
\* as stated; where the bands are pairwise disjoint, each band holds as many
\* of the group's selected records as its slots and its supply allow
GroupQuotas(s, bands, have, got) ==
    LET k == Len(bands)
    IN  /\ \A i \in 1..k : band_quota(s, bands, i) = Quota(s, k, i - 1)
        /\ s >= k =>
               /\ QuotaSum(s, k, k) = s
               /\ \A i \in 1..k :
                      Quota(s, k, i - 1) =
                          (s \div k) + (IF i - 1 < s % k THEN 1 ELSE 0)
        /\ (0 <= s /\ s < k) =>
               /\ \A i \in 1..k : Quota(s, k, i - 1) = 1
               /\ QuotaSum(s, k, k) = k
        /\ Disjoint(bands) =>
               \A i \in 1..k :
                   Len(InBand(got, bands[i])) =
                       Min(Quota(s, k, i - 1), Len(InBand(have, bands[i])))

ArmQuotas(list, pool, target, bands) ==
    (list # <<>> /\ bands # <<>>) =>
        /\ GroupQuotas(SubTargets(target)[1], bands, Carriers(pool),
                       Carriers(list[1].participants))
        /\ GroupQuotas(SubTargets(target)[2], bands, NonCarriers(pool),
                       NonCarriers(list[1].participants))

\* C21: under a group sub-target s and k age bands, the band at position i
\* (from 0) is given max(1, s div k) slots plus one if
\* i < s - max(1, s div k) * k; when s >= k the slots add up to s and the
\* first s mod k bands hold the extra ones; when 0 <= s < k every band is
\* given one slot and the slots add up to k.
C21_BandQuotas ==
    Returned =>
        /\ ArmQuotas(result[1].female_list, FemalePool,
                     config.target_female_count, config.female_age_bands)
        /\ ArmQuotas(result[1].male_list, MalePool,
                     config.target_male_count, config.male_age_bands)

\* a carrier sub-target of 5 over 2 bands, both bands holding 3 carriers: the
\* first band fills its 3 slots, the second its 2
C21_Witness ==
    /\ Returned
    /\ result[1].female_list # <<>>
    /\ config.female_age_bands = SubSeq(DEFAULT_AGE_BANDS, 1, 2)
    /\ SubTargets(config.target_female_count) = <<5, 0>>
    /\ Len(InBand(Carriers(FemalePool), <<35, 39>>)) = 3
    /\ Len(InBand(Carriers(FemalePool), <<40, 44>>)) = 3
    /\ Len(InBand(Carriers(result[1].female_list[1].participants),
                  <<35, 39>>)) = 3
    /\ Len(InBand(Carriers(result[1].female_list[1].participants),
                  <<40, 44>>)) = 2

----------------------------------------------------------------------------
(* Partial fill *)

\* what a group is stated to contribute under sub-target s: band by band, the
\* first min(slots, supply) of the group's records inside the band
Fill(s, bands, have) ==
    concat([i \in 1..Len(bands) |->
              LET inside == InBand(have, bands[i])
              IN  FirstRows(inside,
                            Min(Quota(s, Len(bands), i - 1), Len(inside)))])

PartialFill(list, pool, target, bands) ==
    (list # <<>> /\ bands # <<>>) =>
        LET got == list[1].participants
            c == Fill(SubTargets(target)[1], bands, Carriers(pool))
            n == Fill(SubTargets(target)[2], bands, NonCarriers(pool))
        IN  /\ Carriers(got) = c
            /\ NonCarriers(got) = n
            /\ list[1].summary.e4_carriers = Len(c)
            /\ list[1].summary.non_carriers = Len(n)
            /\ list[1].summary.selected = Len(c) + Len(n)

----------------------------------------------------------------------------
(* Carrier split *)

\* floor(target * ratio), the ratio as written
Floor(target, ratio) == (target * ratio.num) \div ratio.den

\* the sub-targets of an arm are floor(target * ratio) and the rest, neither
\* negative; without age bands the arm holds that many carriers and
\* non-carriers where the pool has them
IntegerSplit(list, pool, target, bands) ==
    list # <<>> =>
        LET ratio == config.apoe_carrier_ratio
            sub_carrier == Floor(target, ratio)
            sub_non == target - sub_carrier
        IN  /\ SubTargets(target) = <<sub_carrier, sub_non>>
            /\ sub_carrier >= 0
            /\ sub_non >= 0
            /\ sub_carrier + sub_non = target
            /\ sub_carrier * ratio.den <= target * ratio.num
            /\ bands = <<>> =>
                   /\ list[1].summary.e4_carriers =
                          Min(sub_carrier, Len(Carriers(pool)))
                   /\ list[1].summary.non_carriers =
                          Min(sub_non, Len(NonCarriers(pool)))

\* C23: for every arm the carrier sub-target is floor(target * ratio) and the
\* non-carrier sub-target is the target minus that; with the ratio in [0, 1]
\* both are non-negative and add up to the target, what truncation cuts off
\* going to the non-carriers.
C23_IntegerSplit ==
    Returned =>
        /\ IntegerSplit(result[1].female_list, FemalePool,
                        config.target_female_count, config.female_age_bands)
        /\ IntegerSplit(result[1].male_list, MalePool,
                        config.target_male_count, config.male_age_bands)

----------------------------------------------------------------------------
(* Output ordering *)

\* the place of a row in a sequence of pairwise different rows
Position(rows, r) == CHOOSE i \in 1..Len(rows) : rows[i] = r

\* the place in the list of the band that holds a row's age, the bands
\* pairwise disjoint
BandOf(bands, r) ==
    CHOOSE b \in 1..Len(bands) : r["age"] >= bands[b][1] /\ r["age"] <= bands[b][2]

\* of any two places of the list the earlier one holds: a carrier if the later
\* one does; within a group, a band not after the later one's; within a band,
\* or without bands, a row that came earlier in the input
Ordered(list, pool, target, bands) ==
    list # <<>> =>
        LET got == list[1].participants
            banded == bands # <<>> /\ Disjoint(bands)
        IN  /\ got = Carriers(got) \o NonCarriers(got)
            /\ \A p, q \in 1..Len(got) :
                   (p < q /\ got[p]["is_e4_carrier"] = got[q]["is_e4_carrier"]) =>
                       /\ banded => BandOf(bands, got[p]) <= BandOf(bands, got[q])
                       /\ (bands = <<>>
                             \/ /\ banded
                                /\ BandOf(bands, got[p]) = BandOf(bands, got[q])) =>
                              Position(pool, got[p]) < Position(pool, got[q])
            /\ (bands # <<>> /\ ~Disjoint(bands)) =>
                   got = Fill(SubTargets(target)[1], bands, Carriers(pool))
                         \o Fill(SubTargets(target)[2], bands, NonCarriers(pool))

\* C24: an arm's participant list is the whole carrier selection followed by
\* the whole non-carrier selection; within each group the records stand band
\* by band in the order of the configured bands, and within a band in the
\* order they had in the input cohort.
C24_OutputOrdering ==
    Returned =>
        /\ Ordered(result[1].female_list, FemalePool,
                   config.target_female_count, config.female_age_bands)
        /\ Ordered(result[1].male_list, MalePool,
                   config.target_male_count, config.male_age_bands)

\* a list in which two carriers of the first band stand in their input order,
\* before a carrier of the second band that came before them in the input,
\* itself before a non-carrier that came before it in the input
C24_Witness ==
    /\ Returned
    /\ result[1].female_list # <<>>
    /\ config.female_age_bands # <<>>
    /\ LET got == result[1].female_list[1].participants
           bands == config.female_age_bands
       IN  \E o, p, q, r \in 1..Len(got) :
               /\ o < p /\ p < q /\ q < r
               /\ got[o]["is_e4_carrier"] /\ got[p]["is_e4_carrier"]
               /\ got[q]["is_e4_carrier"] /\ ~got[r]["is_e4_carrier"]
               /\ BandOf(bands, got[o]) = 1
               /\ BandOf(bands, got[p]) = 1
               /\ BandOf(bands, got[q]) = 2
               /\ Position(FemalePool, got[o]) < Position(FemalePool, got[p])
               /\ Position(FemalePool, got[q]) < Position(FemalePool, got[o])
               /\ Position(FemalePool, got[r]) < Position(FemalePool, got[q])

----------------------------------------------------------------------------
(* Summary counts *)

\* the label holds e4 in either case
SpellsE4(label) ==
    \E i \in 1..(Len(Spelling[label]) - 1) :
        /\ Spelling[label][i] \in {"e", "E"}
        /\ Spelling[label][i + 1] = "4"

\* the number of rows whose label holds e4
CountE4(rows) ==
    Cardinality({ i \in 1..Len(rows) : SpellsE4(rows[i]["apoe_genotype"]) })

SummaryConsistent(list, target, aliases) ==
    list # <<>> =>
        LET s == list[1].summary
            got == list[1].participants
            eligible == { i \in 1..Len(df.rows) :
                            df.rows[i]["gender"] \in aliases }
        IN  /\ s.target = target
            /\ s.selected = Len(got)
            /\ s.selected = s.e4_carriers + s.non_carriers
            /\ s.e4_carriers = CountE4(got)
            /\ s.available_carriers + s.available_non_carriers =
                   Cardinality(eligible)
            /\ s.available_carriers =
                   Cardinality({ i \in eligible :
                                   SpellsE4(df.rows[i]["apoe_genotype"]) })

\* C25: in every arm of every result the summary's target is the arm's
\* configured target, selected is the length of the participant list and the
\* sum of e4_carriers and non_carriers, e4_carriers is the number of selected
\* records whose label holds e4 in either case, and available_carriers plus
\* available_non_carriers is the number of eligible records of the arm's
\* gender.
C25_SummaryConsistency ==
    Returned =>
        /\ SummaryConsistent(result[1].female_list,
                             config.target_female_count, FemaleAliases)
        /\ SummaryConsistent(result[1].male_list,
                             config.target_male_count, MaleAliases)

\* an arm holding a selected carrier whose label is in upper case, next to a
\* selected non-carrier
C25_Witness ==
    /\ Returned
    /\ result[1].female_list # <<>>
    /\ \E i \in 1..Len(result[1].female_list[1].participants) :
           result[1].female_list[1].participants[i]["apoe_genotype"] = "E3/E4"
    /\ result[1].female_list[1].summary.e4_carriers = 1
    /\ result[1].female_list[1].summary.non_carriers = 1
    /\ result[1].female_list[1].summary.selected = 2

----------------------------------------------------------------------------
(* Arm membership *)

\* the sample ids of the rows
Ids(rows) == { rows[i]["sample_id"] : i \in 1..Len(rows) }

\* every row of the arm is a row of the eligible table, comes from a record
\* of the input cohort, falls under no exclusion rule, carries a token of the
\* arm's gender, and, when the arm has age bands, has its age in one of them
Members(list, aliases, bands) ==
    \A k \in 1..Len(Participants(list)) :
        LET r == Participants(list)[k]
        IN  /\ \E i \in 1..Len(df.rows) : df.rows[i] = r
            /\ \E i \in 1..Len(cohort.rows) :
                   /\ cohort.rows[i]["sample_id"] = r["sample_id"]
                   /\ cohort.rows[i]["apoe_genotype"] = r["apoe_genotype"]
            /\ ~UnderExclusion(r["apoe_genotype"])
            /\ r["gender"] \in aliases
            /\ bands # <<>> =>
                   \E b \in 1..Len(bands) :
                       r["age"] >= bands[b][1] /\ r["age"] <= bands[b][2]

\* C26: every record of the female arm is an input record that passed the
\* exclusion rules and carries a female token, every record of the male arm
\* likewise carries a male token, so that no record is in both arms; when an
\* arm has age bands, the age of each of its records lies inside one of them.
C26_ArmMembership ==
    Returned =>
        /\ Members(result[1].female_list, FemaleAliases,
                   config.female_age_bands)
        /\ Members(result[1].male_list, MaleAliases, config.male_age_bands)
        /\ Ids(Participants(result[1].female_list))
               \cap Ids(Participants(result[1].male_list)) = {}

\* both arms hold records while the female pool holds a record whose age is
\* in none of the arm's bands
C26_Witness ==
    /\ Returned
    /\ Participants(result[1].female_list) # <<>>
    /\ Participants(result[1].male_list) # <<>>
    /\ config.female_age_bands # <<>>
    /\ \E i \in 1..Len(FemalePool) :
           \A b \in 1..Len(config.female_age_bands) :
               \/ FemalePool[i]["age"] < config.female_age_bands[b][1]
               \/ FemalePool[i]["age"] > config.female_age_bands[b][2]

====
